---- MODULE Spec2Model ----
(***************************************************************************)
(* Model of the Tickl cloud functions (functions/src/index.ts): the        *)
(* email-verification handlers sendEmailVerification / verifyEmailOtp, the *)
(* anonymous-messaging handler submitAnonymousMessage, the trigger         *)
(* generatePublicLink and the administrative handlers approveOrganization  *)
(* and createOrgAdminAndSendCredentials, over the Firestore collections    *)
(* and the identity service they read and write.                           *)
(*                                                                         *)
(* Strings the code inspects (emails, domains, one-time codes) are         *)
(* sequences of one-character strings, so that split, toLowerCase, the     *)
(* email regex and Number.toString are computed, not assumed.  Document    *)
(* ids and free text are TLA+ strings; "" is the missing/falsy value.      *)
(* Time is counted in minutes.                                             *)
(***************************************************************************)
EXTENDS Integers, Sequences, FiniteSets, TLC

VARIABLES
    now,                \* the wall clock (Date.now / Timestamp.now), minutes
    organizations,      \* collection "organizations":      id  -> document
    emailVerifications, \* collection "emailVerifications": uid -> document
    users,              \* collection "users":              uid -> document
    userPublicLinks,    \* collection "userPublicLinks":    id  -> document
    anonymousMessages,  \* collection "anonymousMessages":  documents, in order of add()
    orgAdmins,          \* collection "orgAdmins":          uid -> document
    accounts,           \* the identity service:            uid -> account
    env,                \* process.env, read by getConfig
    events,             \* users/{userId} update events not yet delivered
    delivered,          \* the update event delivered last, and what it wrote
    inflight,           \* invocations under way, each between two of its awaits
    last                \* the most recent invocation and its outcome

vars == <<now, organizations, emailVerifications, users, userPublicLinks,
          anonymousMessages, orgAdmins, accounts, env, events, delivered, inflight,
          last>>

----------------------------------------------------------------------------
(* Bounds of the model *)

ClockSlack == 1
RandomDenominator == 1000
MaxMessages == 2
MaxEvents == 3

(* Program constants *)

OtpBase == 1000
OtpSpan == 9000
ExpiryMinutes == 15

----------------------------------------------------------------------------
(* Documents.  A snapshot of a missing document has exists = FALSE. *)

NoDoc == [exists |-> FALSE]

NoAuth == "noauth"
Uids == {"u1"}
Callers == Uids \cup {NoAuth}

\* a field that a document does not carry (verifiedAt before verification)
NoField == -1

\* JavaScript values of fields and inputs whose type the code does not fix
JsUndefined == [t |-> "undefined"]
JsBoolean(b) == [t |-> "boolean", v |-> b]
JsString(x)  == [t |-> "string", v |-> x]
JsNumber(n)  == [t |-> "number", v |-> n]

\* the value of x in a condition: if (x), !x, x || y
truthy(x) ==
    CASE x.t = "boolean" -> x.v
      [] x.t = "string"  -> x.v # <<>>
      [] x.t = "number"  -> x.v # 0
      [] OTHER           -> FALSE

\* x === true
strictlyTrue(x) == x.t = "boolean" /\ x.v

\* x === false
strictlyFalse(x) == x.t = "boolean" /\ ~x.v

\* the state of the collections and services that a workflow does not use
NoEvent == [none |-> TRUE]
NoEnv == [SUPER_ADMIN_EMAIL |-> <<>>]

----------------------------------------------------------------------------
(* String primitives of the JavaScript runtime *)

UpperCase ==
    <<"A", "B", "C", "D", "E", "F", "G", "H", "I", "J", "K", "L", "M",
      "N", "O", "P", "Q", "R", "S", "T", "U", "V", "W", "X", "Y", "Z">>
LowerCase ==
    <<"a", "b", "c", "d", "e", "f", "g", "h", "i", "j", "k", "l", "m",
      "n", "o", "p", "q", "r", "s", "t", "u", "v", "w", "x", "y", "z">>

toLowerCaseChar(c) ==
    IF \E i \in 1..Len(UpperCase) : UpperCase[i] = c
    THEN LowerCase[CHOOSE i \in 1..Len(UpperCase) : UpperCase[i] = c]
    ELSE c

toLowerCase(s) == [i \in 1..Len(s) |-> toLowerCaseChar(s[i])]

\* s.split(sep) for a one-character separator
RECURSIVE split(_, _)
split(s, sep) ==
    IF \A i \in 1..Len(s) : s[i] # sep
    THEN <<s>>
    ELSE LET i == CHOOSE k \in 1..Len(s) :
                      s[k] = sep /\ \A m \in 1..(k - 1) : s[m] # sep
         IN  <<SubSeq(s, 1, i - 1)>> \o split(SubSeq(s, i + 1, Len(s)), sep)

\* /^[^\s@]+@[^\s@]+\.[^\s@]+$/.test(s)
emailRegexTest(s) ==
    \E i \in 1..Len(s), j \in 1..Len(s) :
        /\ s[i] = "@"
        /\ s[j] = "."
        /\ 1 < i
        /\ i + 1 < j
        /\ j < Len(s)
        /\ \A k \in 1..Len(s) : k # i => s[k] \notin {"@", " "}

Digits == <<"0", "1", "2", "3", "4", "5", "6", "7", "8", "9">>

\* Number.prototype.toString for a non-negative integer
RECURSIVE numberToString(_)
numberToString(n) ==
    IF n < 10 THEN <<Digits[n + 1]>>
    ELSE numberToString(n \div 10) \o <<Digits[(n % 10) + 1]>>

\* Math.random() returns r / RandomDenominator, 0 <= r < RandomDenominator
RandomSamples == {0, RandomDenominator - 1}

----------------------------------------------------------------------------
(* Inputs a client can send *)

EmailLower   == <<"b", "@", "a", ".", "c">>
EmailUpper   == <<"b", "@", "A", ".", "C">>
EmailOther   == <<"b", "@", "x", ".", "c">>
EmailNoDot   == <<"b", "@", "a", "c">>
EmailMissing == <<>>

EmailInputs == {EmailLower, EmailUpper, EmailOther, EmailNoDot, EmailMissing}

OrgIds == {"o1", "o2", "o3"}
OrgIdInputs == OrgIds \cup {""}

OtpMissing == <<>>
OtpInputs == {OtpMissing, <<"1", "0", "0", "0">>, <<"9", "9", "9", "9">>,
              <<"0", "1", "0", "0", "0">>}

----------------------------------------------------------------------------
(* The outer try/catch of every callable rethrows whatever was thrown      *)
(* inside as HttpsError("internal", message).                              *)

catchRethrow(thrown) == "internal"

\* the record kept of one invocation
Invocation(op, auth, args, reason, thrown, result) ==
    [op      |-> op,
     auth    |-> auth,
     args    |-> args,
     reason  |-> reason,
     thrown  |-> thrown,
     code    |-> IF reason = "ok" THEN "ok" ELSE catchRethrow(thrown),
     success |-> reason = "ok",
     result  |-> result]

\* no invocation is under way: the handlers run one at a time
NoCalls == <<>>

NoInvocation ==
    [op |-> "none", auth |-> NoAuth, args |-> [none |-> TRUE],
     reason |-> "none", thrown |-> "none", code |-> "none",
     success |-> FALSE, result |-> [none |-> TRUE]]

----------------------------------------------------------------------------
(* sendEmailVerification *)

\* variant: the span of the random term covers 10000 values instead of 9000
generateOtp_WideSpan(r) ==
    numberToString((OtpBase * RandomDenominator + r * (OtpBase + OtpSpan))
                       \div RandomDenominator)

\* Math.floor(1000 + Math.random() * 9000).toString()
generateOtp(r) ==
    numberToString((OtpBase * RandomDenominator + r * OtpSpan) \div RandomDenominator)

\* variant: the organization's domain is compared as stored, not lowercased
sendEmailVerificationReason_RawOrgDomain(auth, email, organizationId, smtpOk) ==
    IF auth = NoAuth THEN "unauthenticated"
    ELSE IF email = EmailMissing \/ organizationId = "" THEN "missing"
    ELSE IF ~emailRegexTest(email) THEN "format"
    ELSE IF ~organizations[organizationId].exists THEN "no-organization"
    ELSE IF toLowerCase(split(email, "@")[2])
              # organizations[organizationId].domain THEN "domain"
    ELSE IF ~smtpOk THEN "smtp"
    ELSE "ok"

\* the first check of the handler that fails, or "ok"
sendEmailVerificationReason(auth, email, organizationId, smtpOk) ==
    IF auth = NoAuth THEN "unauthenticated"
    ELSE IF email = EmailMissing \/ organizationId = "" THEN "missing"
    ELSE IF ~emailRegexTest(email) THEN "format"
    ELSE IF ~organizations[organizationId].exists THEN "no-organization"
    ELSE IF toLowerCase(split(email, "@")[2])
              # toLowerCase(organizations[organizationId].domain) THEN "domain"
    ELSE IF ~smtpOk THEN "smtp"
    ELSE "ok"

\* the status code of the error thrown at each failing check
sendEmailVerificationThrown(reason) ==
    CASE reason = "unauthenticated"  -> "unauthenticated"
      [] reason = "missing"          -> "invalid-argument"
      [] reason = "format"           -> "invalid-argument"
      [] reason = "no-organization"  -> "not-found"
      [] reason = "domain"           -> "invalid-argument"
      [] reason = "smtp"             -> "transport-error"
      [] OTHER                       -> "none"

\* variant: .set({...}, {merge: true}) keeps the prior document's other fields
verificationDocument_Merge(prior, email, otp, organizationId) ==
    [exists         |-> TRUE,
     email          |-> email,
     otp            |-> otp,
     organizationId |-> organizationId,
     createdAt      |-> now,
     expiresAt      |-> now + ExpiryMinutes,
     verified       |-> FALSE,
     verifiedAt     |-> IF prior.exists THEN prior.verifiedAt ELSE NoField]

\* the document after .set({...}): the prior document is replaced as a whole
verificationDocument(prior, email, otp, organizationId) ==
    [exists         |-> TRUE,
     email          |-> email,
     otp            |-> otp,
     organizationId |-> organizationId,
     createdAt      |-> now,
     expiresAt      |-> now + ExpiryMinutes,
     verified       |-> FALSE,
     verifiedAt     |-> NoField]

\* variant: the code is mailed first and stored only when the relay took it
sendEmailVerification_SendBeforeStore(auth, email, organizationId, r, smtpOk) ==
    LET reason == sendEmailVerificationReason(auth, email, organizationId, smtpOk)
        stored == reason = "ok"
        otp    == IF stored THEN generateOtp(r) ELSE OtpMissing
        hadDoc == auth # NoAuth /\ emailVerifications[auth].exists
    IN  /\ emailVerifications' =
              IF stored
              THEN [emailVerifications EXCEPT
                        ![auth] = verificationDocument(@, email, otp, organizationId)]
              ELSE emailVerifications
        /\ last' = Invocation("sendEmailVerification", auth,
                              [email |-> email, organizationId |-> organizationId],
                              reason, sendEmailVerificationThrown(reason),
                              [otp |-> otp, stored |-> stored,
                               smtp |-> IF reason \notin {"smtp", "ok"} THEN "unused"
                                        ELSE IF smtpOk THEN "accepted" ELSE "refused",
                               wasVerified |-> hadDoc /\ emailVerifications[auth].verified])
        /\ UNCHANGED <<now, organizations, users, userPublicLinks, anonymousMessages,
                       orgAdmins, accounts, env, inflight, events, delivered>>

\* the document is set, then the mail is sent
sendEmailVerification(auth, email, organizationId, r, smtpOk) ==
    LET reason == sendEmailVerificationReason(auth, email, organizationId, smtpOk)
        stored == reason \in {"smtp", "ok"}
        otp    == IF stored THEN generateOtp(r) ELSE OtpMissing
        hadDoc == auth # NoAuth /\ emailVerifications[auth].exists
    IN  /\ emailVerifications' =
              IF stored
              THEN [emailVerifications EXCEPT
                        ![auth] = verificationDocument(@, email, otp, organizationId)]
              ELSE emailVerifications
        /\ last' = Invocation("sendEmailVerification", auth,
                              [email |-> email, organizationId |-> organizationId],
                              reason, sendEmailVerificationThrown(reason),
                              [otp |-> otp, stored |-> stored,
                               smtp |-> IF ~stored THEN "unused"
                                        ELSE IF smtpOk THEN "accepted" ELSE "refused",
                               wasVerified |-> hadDoc /\ emailVerifications[auth].verified])
        /\ UNCHANGED <<now, organizations, users, userPublicLinks, anonymousMessages,
                       orgAdmins, accounts, env, inflight, events, delivered>>

----------------------------------------------------------------------------
(* verifyEmailOtp *)

\* verification.expiresAt.toMillis() < now.toMillis()
isExpired(verification) == verification.expiresAt < now

\* variant: a code that was already confirmed is consumed and rejected
verifyEmailOtpReason_SingleUse(auth, otp) ==
    IF auth = NoAuth THEN "unauthenticated"
    ELSE IF otp = OtpMissing THEN "missing"
    ELSE IF ~emailVerifications[auth].exists THEN "no-record"
    ELSE IF isExpired(emailVerifications[auth]) THEN "expired"
    ELSE IF emailVerifications[auth].otp # otp THEN "mismatch"
    ELSE IF emailVerifications[auth].verified THEN "mismatch"
    ELSE IF ~users[auth].exists THEN "no-profile"
    ELSE "ok"

\* the first check of the handler that fails, or "ok"; the last write,
\* users/{uid}.update, fails when the caller has no profile document
verifyEmailOtpReason(auth, otp) ==
    IF auth = NoAuth THEN "unauthenticated"
    ELSE IF otp = OtpMissing THEN "missing"
    ELSE IF ~emailVerifications[auth].exists THEN "no-record"
    ELSE IF isExpired(emailVerifications[auth]) THEN "expired"
    ELSE IF emailVerifications[auth].otp # otp THEN "mismatch"
    ELSE IF ~users[auth].exists THEN "no-profile"
    ELSE "ok"

verifyEmailOtpThrown(reason) ==
    CASE reason = "unauthenticated" -> "unauthenticated"
      [] reason = "missing"         -> "invalid-argument"
      [] reason = "no-record"       -> "not-found"
      [] reason = "expired"         -> "deadline-exceeded"
      [] reason = "mismatch"        -> "invalid-argument"
      [] reason = "no-profile"      -> "firestore-not-found"
      [] OTHER                      -> "none"

\* .update({verified: true, verifiedAt: serverTimestamp()})
markVerified(verification) ==
    [verification EXCEPT !.verified = TRUE, !.verifiedAt = now]

\* variant: the update sets the email but not the flag
updateUserProfile_EmailOnly(profile, verification) ==
    [profile EXCEPT !.companyEmail = verification.email]

\* .update({companyEmail: verification.email, companyEmailVerified: true})
updateUserProfile(profile, verification) ==
    [profile EXCEPT !.companyEmail = verification.email,
                    !.companyEmailVerified = TRUE]

\* variant: the record is marked verified before the code is compared
verifyEmailOtp_MarkBeforeCompare(auth, otp) ==
    LET reason  == verifyEmailOtpReason(auth, otp)
        marked  == reason \in {"mismatch", "no-profile", "ok"}
        hadDoc  == auth # NoAuth /\ emailVerifications[auth].exists
    IN  /\ emailVerifications' =
              IF marked
              THEN [emailVerifications EXCEPT ![auth] = markVerified(@)]
              ELSE emailVerifications
        /\ users' =
              IF reason = "ok"
              THEN [users EXCEPT ![auth] =
                        updateUserProfile(@, emailVerifications[auth])]
              ELSE users
        /\ last' = Invocation("verifyEmailOtp", auth, [otp |-> otp],
                              reason, verifyEmailOtpThrown(reason),
                              [email |-> IF reason = "ok"
                                         THEN emailVerifications[auth].email
                                         ELSE EmailMissing,
                               wasVerified |-> hadDoc /\ emailVerifications[auth].verified])
        /\ UNCHANGED <<now, organizations, userPublicLinks, anonymousMessages,
                       orgAdmins, accounts, env, inflight, events, delivered>>

\* variant: an expired record found at confirmation is reset to unverified
verifyEmailOtp_InvalidateExpired(auth, otp) ==
    LET reason  == verifyEmailOtpReason(auth, otp)
        marked  == reason \in {"no-profile", "ok"}
        hadDoc  == auth # NoAuth /\ emailVerifications[auth].exists
    IN  /\ emailVerifications' =
              IF marked
              THEN [emailVerifications EXCEPT ![auth] = markVerified(@)]
              ELSE IF reason = "expired"
              THEN [emailVerifications EXCEPT ![auth].verified = FALSE]
              ELSE emailVerifications
        /\ users' =
              IF reason = "ok"
              THEN [users EXCEPT ![auth] =
                        updateUserProfile(@, emailVerifications[auth])]
              ELSE users
        /\ last' = Invocation("verifyEmailOtp", auth, [otp |-> otp],
                              reason, verifyEmailOtpThrown(reason),
                              [email |-> IF reason = "ok"
                                         THEN emailVerifications[auth].email
                                         ELSE EmailMissing,
                               wasVerified |-> hadDoc /\ emailVerifications[auth].verified])
        /\ UNCHANGED <<now, organizations, userPublicLinks, anonymousMessages,
                       orgAdmins, accounts, env, inflight, events, delivered>>

\* the handler: the checks in order, then the two writes
verifyEmailOtp(auth, otp) ==
    LET reason  == verifyEmailOtpReason(auth, otp)
        marked  == reason \in {"no-profile", "ok"}
        hadDoc  == auth # NoAuth /\ emailVerifications[auth].exists
    IN  /\ emailVerifications' =
              IF marked
              THEN [emailVerifications EXCEPT ![auth] = markVerified(@)]
              ELSE emailVerifications
        /\ users' =
              IF reason = "ok"
              THEN [users EXCEPT ![auth] =
                        updateUserProfile(@, emailVerifications[auth])]
              ELSE users
        /\ last' = Invocation("verifyEmailOtp", auth, [otp |-> otp],
                              reason, verifyEmailOtpThrown(reason),
                              [email |-> IF reason = "ok"
                                         THEN emailVerifications[auth].email
                                         ELSE EmailMissing,
                               wasVerified |-> hadDoc /\ emailVerifications[auth].verified])
        /\ UNCHANGED <<now, organizations, userPublicLinks, anonymousMessages,
                       orgAdmins, accounts, env, inflight, events, delivered>>

----------------------------------------------------------------------------
(* The clock.  Time passes between invocations: it jumps to a later one of  *)
(* the instants observed, by which the last response has been delivered.   *)

Tick ==
    /\ \E t \in {0} \cup (ExpiryMinutes..(ExpiryMinutes + ClockSlack)) : t > now /\ now' = t
    /\ last' = NoInvocation
    /\ UNCHANGED <<organizations, emailVerifications, users, userPublicLinks,
                   anonymousMessages, orgAdmins, accounts, env, inflight, events, delivered>>

----------------------------------------------------------------------------
(* The verification workflow: any caller, any input, at any time *)

organization(name, domain) ==
    [exists |-> TRUE, name |-> name, domain |-> domain, approved |-> FALSE,
     adminUsers |-> <<>>, updatedAt |-> NoField]

userProfile ==
    [exists |-> TRUE, companyEmail |-> EmailMissing, companyEmailVerified |-> FALSE,
     profileCompleted |-> JsUndefined, publicLinkId |-> "",
     publicProfileEnabled |-> FALSE]

InitVerification ==
    /\ now = 0
    /\ organizations = [o \in OrgIds |->
           CASE o = "o1" -> organization("Acme", <<"A", ".", "c">>)
             [] o = "o2" -> organization("Xylo", <<"x", ".", "c">>)
             [] OTHER    -> NoDoc]
    /\ emailVerifications = [u \in Uids |-> NoDoc]
    /\ users \in [Uids -> {userProfile, NoDoc}]
    /\ userPublicLinks = [l \in {} |-> NoDoc]
    /\ anonymousMessages = <<>>
    /\ orgAdmins = [a \in {} |-> NoDoc]
    /\ accounts = [a \in {} |-> NoDoc]
    /\ env = NoEnv
    /\ events = <<>>
    /\ delivered = NoEvent
    /\ inflight = NoCalls
    /\ last = NoInvocation

\* Math.random and the SMTP relay are consulted only by an invocation that
\* passes validation
SendEmailVerificationCall ==
    \E auth \in Callers, email \in EmailInputs, organizationId \in OrgIdInputs :
        IF sendEmailVerificationReason(auth, email, organizationId, TRUE) = "ok"
        THEN \E r \in RandomSamples, smtpOk \in BOOLEAN :
                 sendEmailVerification(auth, email, organizationId, r, smtpOk)
        ELSE sendEmailVerification(auth, email, organizationId, 0, TRUE)

VerifyEmailOtpCall ==
    \E auth \in Callers, otp \in OtpInputs : verifyEmailOtp(auth, otp)

NextVerification ==
    \/ SendEmailVerificationCall
    \/ VerifyEmailOtpCall
    \/ Tick

SpecVerification == InitVerification /\ [][NextVerification]_vars

----------------------------------------------------------------------------
(* sendEmailVerification and verifyEmailOtp, await by await, for one user: *)
(* two requests for a code and one confirmation run at the same time.      *)

Requesters == {"c1", "c2"}
Confirmers == {"c3"}

\* an invocation: where it is, its input, the code and expiry it computed
\* or the snapshot of the record that it read
verificationCall(pc, email, organizationId, otp, expiresAt, verification, reason) ==
    [pc |-> pc, email |-> email, organizationId |-> organizationId, otp |-> otp,
     expiresAt |-> expiresAt, verification |-> verification, reason |-> reason]

\* the checks, the read of the organization, Math.random and
\* Date.now() + 15 * 60 * 1000
beginSendEmailVerification(c, auth, email, organizationId, r) ==
    /\ inflight[c].pc = "idle"
    /\ sendEmailVerificationReason(auth, email, organizationId, TRUE) = "ok"
    /\ inflight' = [inflight EXCEPT ![c] =
           verificationCall("otp", email, organizationId, generateOtp(r),
                            now + ExpiryMinutes, NoDoc, "none")]
    /\ UNCHANGED <<now, organizations, emailVerifications, users, userPublicLinks,
                   anonymousMessages, orgAdmins, accounts, env, events, delivered, last>>

\* variant: an existing document is updated with the new code and expiry only
storedVerification_CodeOnly(current, mine) ==
    IF current.exists
    THEN [current EXCEPT !.otp = mine.otp, !.expiresAt = mine.expiresAt,
                         !.createdAt = mine.createdAt, !.verified = FALSE]
    ELSE mine

\* .set({email, otp, organizationId, createdAt, expiresAt, verified}) puts
\* the invocation's document in the place of the one in the store
storedVerification(current, mine) == mine

\* await ...collection("emailVerifications").doc(userId).set({...})
storeVerification(c, auth) ==
    /\ inflight[c].pc = "otp"
    /\ emailVerifications' = [emailVerifications EXCEPT ![auth] =
           storedVerification(@,
               [verificationDocument(@, inflight[c].email, inflight[c].otp,
                                     inflight[c].organizationId)
                    EXCEPT !.expiresAt = inflight[c].expiresAt])]
    /\ inflight' = [inflight EXCEPT ![c] = [@ EXCEPT !.pc = "stored"]]
    /\ UNCHANGED <<now, organizations, users, userPublicLinks, anonymousMessages,
                   orgAdmins, accounts, env, events, delivered, last>>

\* await transporter.sendMail(mailOptions), and the return or the throw
sendVerificationMail(c, auth, smtpOk) ==
    LET reason == IF smtpOk THEN "ok" ELSE "smtp"
    IN  /\ inflight[c].pc = "stored"
        /\ inflight' = [inflight EXCEPT ![c] = [@ EXCEPT !.pc = "done", !.reason = reason]]
        /\ last' = Invocation("sendEmailVerification", auth,
                              [email |-> inflight[c].email,
                               organizationId |-> inflight[c].organizationId],
                              reason, sendEmailVerificationThrown(reason),
                              [otp |-> inflight[c].otp, stored |-> TRUE,
                               smtp |-> IF smtpOk THEN "accepted" ELSE "refused",
                               wasVerified |-> FALSE])
        /\ UNCHANGED <<now, organizations, emailVerifications, users, userPublicLinks,
                       anonymousMessages, orgAdmins, accounts, env, events, delivered>>

\* await ...collection("emailVerifications").doc(userId).get(), with the
\* checks of the snapshot: existence, expiry, code
readVerification(c, auth, otp) ==
    LET reason == verifyEmailOtpReason(auth, otp)
        passed == reason \in {"no-profile", "ok"}
    IN  /\ inflight[c].pc = "idle"
        /\ inflight' = [inflight EXCEPT ![c] =
               verificationCall(IF passed THEN "verification" ELSE "done",
                                EmailMissing, "", otp, NoField,
                                emailVerifications[auth],
                                IF passed THEN "none" ELSE reason)]
        /\ last' = IF passed THEN last
                   ELSE Invocation("verifyEmailOtp", auth, [otp |-> otp], reason,
                                   verifyEmailOtpThrown(reason),
                                   [email |-> EmailMissing, wasVerified |-> FALSE])
        /\ UNCHANGED <<now, organizations, emailVerifications, users, userPublicLinks,
                       anonymousMessages, orgAdmins, accounts, env, events, delivered>>

\* await ...collection("emailVerifications").doc(userId).update({verified: true, ...}):
\* the update goes to the document that the store holds now
markVerification(c, auth) ==
    /\ inflight[c].pc = "verification"
    /\ emailVerifications' = [emailVerifications EXCEPT ![auth] = markVerified(@)]
    /\ inflight' = [inflight EXCEPT ![c] = [@ EXCEPT !.pc = "marked"]]
    /\ UNCHANGED <<now, organizations, users, userPublicLinks, anonymousMessages,
                   orgAdmins, accounts, env, events, delivered, last>>

\* await ...collection("users").doc(userId).update({companyEmail: verification.email, ...}),
\* with the email of the snapshot, and the return
updateVerifiedProfile(c, auth) ==
    /\ inflight[c].pc = "marked"
    /\ users[auth].exists
    /\ users' = [users EXCEPT ![auth] = updateUserProfile(@, inflight[c].verification)]
    /\ inflight' = [inflight EXCEPT ![c] = [@ EXCEPT !.pc = "done", !.reason = "ok"]]
    /\ last' = Invocation("verifyEmailOtp", auth, [otp |-> inflight[c].otp], "ok", "none",
                          [email |-> inflight[c].verification.email,
                           wasVerified |-> inflight[c].verification.verified])
    /\ UNCHANGED <<now, organizations, emailVerifications, userPublicLinks,
                   anonymousMessages, orgAdmins, accounts, env, events, delivered>>

----------------------------------------------------------------------------
(* The verification workflow under concurrency: user u1 asks twice for a   *)
(* code, for an address of o1 or of o2, and confirms once.                 *)

InitConcurrentVerification ==
    /\ now = 0
    /\ organizations = [o \in OrgIds |->
           CASE o = "o1" -> organization("Acme", <<"A", ".", "c">>)
             [] o = "o2" -> organization("Xylo", <<"x", ".", "c">>)
             [] OTHER    -> NoDoc]
    /\ emailVerifications = [u \in Uids |-> NoDoc]
    /\ users = [u \in Uids |-> userProfile]
    /\ userPublicLinks = [l \in {} |-> NoDoc]
    /\ anonymousMessages = <<>>
    /\ orgAdmins = [a \in {} |-> NoDoc]
    /\ accounts = [a \in {} |-> NoDoc]
    /\ env = NoEnv
    /\ events = <<>>
    /\ delivered = NoEvent
    /\ inflight = [c \in Requesters \cup Confirmers |->
           verificationCall("idle", EmailMissing, "", OtpMissing, NoField, NoDoc, "none")]
    /\ last = NoInvocation

NextConcurrentVerification ==
    \/ \E c \in Requesters,
          data \in {[email |-> EmailLower, organizationId |-> "o1"],
                    [email |-> EmailOther, organizationId |-> "o2"]},
          r \in RandomSamples :
               beginSendEmailVerification(c, "u1", data.email, data.organizationId, r)
    \/ \E c \in Requesters : storeVerification(c, "u1")
    \/ \E c \in Requesters, smtpOk \in BOOLEAN : sendVerificationMail(c, "u1", smtpOk)
    \/ \E c \in Confirmers, otp \in {generateOtp(r) : r \in RandomSamples} :
               readVerification(c, "u1", otp)
    \/ \E c \in Confirmers : markVerification(c, "u1")
    \/ \E c \in Confirmers : updateVerifiedProfile(c, "u1")
    \/ Tick

SpecConcurrentVerification ==
    InitConcurrentVerification /\ [][NextConcurrentVerification]_vars

----------------------------------------------------------------------------
(* submitAnonymousMessage *)

\* collection.doc(id).get()
getDocument(collection, id) ==
    IF id \in DOMAIN collection THEN collection[id] ELSE NoDoc

\* variant: the isActive check is left out
submitAnonymousMessageReason_NoActiveCheck(linkId, message, senderName) ==
    IF linkId = "" \/ message = "" \/ senderName = "" THEN "missing"
    ELSE IF ~getDocument(userPublicLinks, linkId).exists THEN "no-link"
    ELSE IF ~getDocument(users, getDocument(userPublicLinks, linkId).userId).exists
         THEN "no-recipient"
    ELSE "ok"

\* variant: the recipient's profile is not looked up
submitAnonymousMessageReason_NoRecipientCheck(linkId, message, senderName) ==
    IF linkId = "" \/ message = "" \/ senderName = "" THEN "missing"
    ELSE IF ~getDocument(userPublicLinks, linkId).exists THEN "no-link"
    ELSE IF ~getDocument(userPublicLinks, linkId).isActive THEN "inactive"
    ELSE "ok"

\* the first check of the handler that fails, or "ok"
submitAnonymousMessageReason(linkId, message, senderName) ==
    IF linkId = "" \/ message = "" \/ senderName = "" THEN "missing"
    ELSE IF ~getDocument(userPublicLinks, linkId).exists THEN "no-link"
    ELSE IF ~getDocument(userPublicLinks, linkId).isActive THEN "inactive"
    ELSE IF ~getDocument(users, getDocument(userPublicLinks, linkId).userId).exists
         THEN "no-recipient"
    ELSE "ok"

submitAnonymousMessageThrown(reason) ==
    CASE reason = "missing"      -> "invalid-argument"
      [] reason = "no-link"      -> "not-found"
      [] reason = "inactive"     -> "failed-precondition"
      [] reason = "no-recipient" -> "not-found"
      [] OTHER                   -> "none"

\* the document passed to collection('anonymousMessages').add()
messageData(linkData, linkId, message, senderName, ip) ==
    [recipientId |-> linkData.userId,
     senderName  |-> senderName,
     message     |-> message,
     createdAt   |-> now,
     read        |-> FALSE,
     linkId      |-> linkId,
     ipAddress   |-> IF ip = "" THEN "null" ELSE ip]

\* variant: FieldValue.increment(2)
incrementMessageCount_ByTwo(link) ==
    [link EXCEPT !.messageCount = @ + 2, !.lastUpdated = now]

\* .update({messageCount: FieldValue.increment(1), lastUpdated: serverTimestamp()})
incrementMessageCount(link) ==
    [link EXCEPT !.messageCount = @ + 1, !.lastUpdated = now]

submitAnonymousMessage(linkId, message, senderName, ip) ==
    LET reason == submitAnonymousMessageReason(linkId, message, senderName)
    IN  /\ reason = "ok" => Len(anonymousMessages) < MaxMessages
        /\ anonymousMessages' =
              IF reason = "ok"
              THEN Append(anonymousMessages,
                          messageData(userPublicLinks[linkId], linkId, message,
                                      senderName, ip))
              ELSE anonymousMessages
        /\ userPublicLinks' =
              IF reason = "ok"
              THEN [userPublicLinks EXCEPT ![linkId] = incrementMessageCount(@)]
              ELSE userPublicLinks
        /\ last' = Invocation("submitAnonymousMessage", NoAuth,
                              [linkId |-> linkId, message |-> message,
                               senderName |-> senderName],
                              reason, submitAnonymousMessageThrown(reason),
                              [messageId |-> IF reason = "ok"
                                             THEN Len(anonymousMessages) + 1 ELSE 0])
        /\ UNCHANGED <<now, organizations, emailVerifications, users,
                       orgAdmins, accounts, env, inflight, events, delivered>>

----------------------------------------------------------------------------
(* The messaging workflow: public links that exist when the function is    *)
(* called, active or deactivated, some of them owned by a user whose       *)
(* profile document is gone.                                               *)

publicLink(userId, isActive) ==
    [exists |-> TRUE, userId |-> userId, isActive |-> isActive, viewCount |-> 0,
     messageCount |-> 0, lastUpdated |-> NoField]

LinkIds == {"l1", "l2", "l3", "l4"}
LinkIdInputs == LinkIds \cup {"l5", ""}
MessageInputs == {"", "hi", "yo"}
SenderInputs == {"", "al"}
IpInputs == {"", "10.0.0.1"}

InitMessaging ==
    /\ now = 0
    /\ organizations = [o \in OrgIds |-> NoDoc]
    /\ emailVerifications = [u \in Uids |-> NoDoc]
    /\ users = [u \in Uids |-> userProfile]
    /\ userPublicLinks = [l \in LinkIds |->
           CASE l = "l1" -> publicLink("u1", TRUE)
             [] l = "l2" -> publicLink("u1", FALSE)
             [] l = "l3" -> publicLink("gone", FALSE)
             [] OTHER    -> publicLink("gone", TRUE)]
    /\ anonymousMessages = <<>>
    /\ orgAdmins = [a \in {} |-> NoDoc]
    /\ accounts = [a \in {} |-> NoDoc]
    /\ env = NoEnv
    /\ events = <<>>
    /\ delivered = NoEvent
    /\ inflight = NoCalls
    /\ last = NoInvocation

SubmitAnonymousMessageCall ==
    \E linkId \in LinkIdInputs, message \in MessageInputs,
       senderName \in SenderInputs, ip \in IpInputs :
        submitAnonymousMessage(linkId, message, senderName, ip)

NextMessaging ==
    \/ SubmitAnonymousMessageCall

SpecMessaging == InitMessaging /\ [][NextMessaging]_vars

----------------------------------------------------------------------------
(* submitAnonymousMessage, await by await.  Several invocations run at the *)
(* same time; each is suspended at its awaits, where the others may run.   *)

Clients == {"c1", "c2", "c3"}

\* an invocation: where it is, its request.data, and the snapshot of the
\* link that it holds
call(pc, linkId, linkData, reason, messageId) ==
    [pc |-> pc, linkId |-> linkId, message |-> "hi", senderName |-> "al",
     linkData |-> linkData, reason |-> reason, messageId |-> messageId]

\* the invocation returns or throws
returned(c, reason) ==
    Invocation("submitAnonymousMessage", NoAuth,
               [linkId |-> inflight[c].linkId, message |-> inflight[c].message,
                senderName |-> inflight[c].senderName, client |-> c],
               reason, submitAnonymousMessageThrown(reason),
               [messageId |-> inflight[c].messageId])

\* the input validation and await ...collection('userPublicLinks').doc(linkId).get(),
\* with the checks of the snapshot
getLink(c, linkId) ==
    LET linkDoc == getDocument(userPublicLinks, linkId)
        reason  == IF linkId = "" THEN "missing"
                   ELSE IF ~linkDoc.exists THEN "no-link"
                   ELSE IF ~linkDoc.isActive THEN "inactive"
                   ELSE "ok"
    IN  /\ inflight[c].pc = "idle"
        /\ inflight' = [inflight EXCEPT ![c] =
               IF reason = "ok" THEN call("linkDoc", linkId, linkDoc, "none", 0)
               ELSE call("done", linkId, linkDoc, reason, 0)]
        /\ last' = IF reason = "ok" THEN last
                   ELSE Invocation("submitAnonymousMessage", NoAuth,
                            [linkId |-> linkId, message |-> "hi", senderName |-> "al",
                             client |-> c],
                            reason, submitAnonymousMessageThrown(reason),
                            [messageId |-> 0])
        /\ UNCHANGED <<now, organizations, emailVerifications, users, userPublicLinks,
                       anonymousMessages, orgAdmins, accounts, env, events, delivered>>

\* await ...collection('users').doc(linkData.userId).get(), with its check
getRecipient(c) ==
    LET userDoc == getDocument(users, inflight[c].linkData.userId)
    IN  /\ inflight[c].pc = "linkDoc"
        /\ inflight' = [inflight EXCEPT ![c] =
               IF userDoc.exists THEN [@ EXCEPT !.pc = "userDoc"]
               ELSE [@ EXCEPT !.pc = "done", !.reason = "no-recipient"]]
        /\ last' = IF userDoc.exists THEN last ELSE returned(c, "no-recipient")
        /\ UNCHANGED <<now, organizations, emailVerifications, users, userPublicLinks,
                       anonymousMessages, orgAdmins, accounts, env, events, delivered>>

\* await ...collection('anonymousMessages').add(messageData)
addMessage(c) ==
    /\ inflight[c].pc = "userDoc"
    /\ anonymousMessages' =
          Append(anonymousMessages,
                 messageData(inflight[c].linkData, inflight[c].linkId,
                             inflight[c].message, inflight[c].senderName, ""))
    /\ inflight' = [inflight EXCEPT ![c] =
           [@ EXCEPT !.pc = "messageRef", !.messageId = Len(anonymousMessages) + 1]]
    /\ UNCHANGED <<now, organizations, emailVerifications, users, userPublicLinks,
                   orgAdmins, accounts, env, events, delivered, last>>

\* variant: the count of the snapshot read at the start, plus one, is written
incrementedLink_ReadModifyWrite(link, linkData) ==
    [link EXCEPT !.messageCount = linkData.messageCount + 1, !.lastUpdated = now]

\* linkDoc.ref.update({messageCount: FieldValue.increment(1), ...}): the store
\* adds one to the value it holds; the snapshot is used for its ref only
incrementedLink(link, linkData) ==
    incrementMessageCount(link)

\* await linkDoc.ref.update(...), and the return
updateLink(c) ==
    /\ inflight[c].pc = "messageRef"
    /\ userPublicLinks' =
          [userPublicLinks EXCEPT
               ![inflight[c].linkId] = incrementedLink(@, inflight[c].linkData)]
    /\ inflight' = [inflight EXCEPT ![c] = [@ EXCEPT !.pc = "done", !.reason = "ok"]]
    /\ last' = returned(c, "ok")
    /\ UNCHANGED <<now, organizations, emailVerifications, users, anonymousMessages,
                   orgAdmins, accounts, env, events, delivered>>

\* await linkDoc.ref.update(...) rejects: the store is unavailable; the
\* message added before stays, the handler throws
failUpdateLink(c) ==
    /\ inflight[c].pc = "messageRef"
    /\ inflight' = [inflight EXCEPT ![c] =
           [@ EXCEPT !.pc = "done", !.reason = "update-failed"]]
    /\ last' = Invocation("submitAnonymousMessage", NoAuth,
                          [linkId |-> inflight[c].linkId, message |-> inflight[c].message,
                           senderName |-> inflight[c].senderName, client |-> c],
                          "update-failed", "firestore-error",
                          [messageId |-> inflight[c].messageId])
    /\ UNCHANGED <<now, organizations, emailVerifications, users, userPublicLinks,
                   anonymousMessages, orgAdmins, accounts, env, events, delivered>>

----------------------------------------------------------------------------
(* The messaging workflow under concurrency: each client submits once, to  *)
(* the active link l1, the inactive link l2, or the link l4 of a user      *)
(* whose profile is gone; no link has a message yet.                       *)

InitConcurrentMessaging ==
    /\ now = 0
    /\ organizations = [o \in OrgIds |-> NoDoc]
    /\ emailVerifications = [u \in Uids |-> NoDoc]
    /\ users = [u \in Uids |-> userProfile]
    /\ userPublicLinks = [l \in LinkIds |->
           CASE l = "l1" -> publicLink("u1", TRUE)
             [] l = "l2" -> publicLink("u1", FALSE)
             [] l = "l3" -> publicLink("gone", FALSE)
             [] OTHER    -> publicLink("gone", TRUE)]
    /\ anonymousMessages = <<>>
    /\ orgAdmins = [a \in {} |-> NoDoc]
    /\ accounts = [a \in {} |-> NoDoc]
    /\ env = NoEnv
    /\ events = <<>>
    /\ delivered = NoEvent
    /\ inflight = [c \in Clients |-> call("idle", "", NoDoc, "none", 0)]
    /\ last = NoInvocation

NextConcurrentMessaging ==
    \/ \E c \in Clients, linkId \in {"l1", "l2", "l4"} : getLink(c, linkId)
    \/ \E c \in Clients : getRecipient(c)
    \/ \E c \in Clients : addMessage(c)
    \/ \E c \in Clients : updateLink(c)

SpecConcurrentMessaging == InitConcurrentMessaging /\ [][NextConcurrentMessaging]_vars

NextFaultyMessaging ==
    \/ NextConcurrentMessaging
    \* the same workflow over a store whose update of the link can fail
    \/ \E c \in Clients : failUpdateLink(c)

SpecFaultyMessaging == InitConcurrentMessaging /\ [][NextFaultyMessaging]_vars

----------------------------------------------------------------------------
(* generatePublicLink: the onDocumentUpdated trigger of users/{userId} *)

\* the event of one update of users/{userId}: snapshots before and after
updateEvent(userId, before, after) ==
    [userId |-> userId, before |-> before, after |-> after]

\* variant: a publicLinkId in the after snapshot does not stop the handler
newlyCompleted_IgnoreLinkId(event) ==
    /\ truthy(event.after.profileCompleted)
    /\ (~truthy(event.before.profileCompleted)
            \/ strictlyFalse(event.before.profileCompleted))

\* variant: only the after snapshot's profileCompleted is looked at
newlyCompleted_AfterOnly(event) ==
    truthy(event.after.profileCompleted)

\* the guard of the handler, on the snapshots carried by the event
newlyCompleted(event) ==
    /\ truthy(event.after.profileCompleted)
    /\ (~truthy(event.before.profileCompleted)
            \/ strictlyFalse(event.before.profileCompleted))
    /\ event.after.publicLinkId = ""

\* the ten characters drawn with Math.random(): any id, taken or not
LinkIdPool == {"k1", "k2"}

\* event.data.after.ref.update({publicLinkId: linkId, publicProfileEnabled: true})
setPublicLinkId(profile, linkId) ==
    [profile EXCEPT !.publicLinkId = linkId, !.publicProfileEnabled = TRUE]

\* one execution of the handler for an event, the other pending events being
\* rest; the handler's own update of the profile is a further update event
generatePublicLink(event, linkId, rest, redelivery) ==
    LET effect  == newlyCompleted(event)
        profile == users[event.userId]
        written == IF effect THEN linkId ELSE ""
    IN  /\ userPublicLinks' =
              IF effect
              THEN [userPublicLinks EXCEPT ![linkId] = publicLink(event.userId, TRUE)]
              ELSE userPublicLinks
        /\ users' =
              IF effect
              THEN [users EXCEPT ![event.userId] = setPublicLinkId(@, linkId)]
              ELSE users
        /\ events' =
              IF effect /\ setPublicLinkId(profile, linkId) # profile
              THEN Append(rest, updateEvent(event.userId, profile,
                                            setPublicLinkId(profile, linkId)))
              ELSE rest
        /\ delivered' = IF redelivery THEN NoEvent
                        ELSE [event |-> event, linkId |-> written]
        /\ last' = Invocation("generatePublicLink", NoAuth,
                              [event |-> event, redelivery |-> redelivery,
                               firstLinkId |-> IF redelivery THEN delivered.linkId
                                               ELSE ""],
                              "ok", "none", [linkId |-> written])
        /\ UNCHANGED <<now, organizations, emailVerifications, anonymousMessages,
                       orgAdmins, accounts, env, inflight>>

\* a client's write users/{userId}.update({profileCompleted: completed})
updateProfile(userId, completed) ==
    LET before == users[userId]
        after  == [before EXCEPT !.profileCompleted = completed]
    IN  /\ before.exists
        /\ after # before
        /\ Len(events) < MaxEvents
        /\ users' = [users EXCEPT ![userId] = after]
        /\ events' = Append(events, updateEvent(userId, before, after))
        /\ last' = NoInvocation
        /\ UNCHANGED <<now, organizations, emailVerifications, userPublicLinks,
                       anonymousMessages, orgAdmins, accounts, env, inflight, delivered>>

----------------------------------------------------------------------------
(* The public-link workflow: clients update their profile, the update      *)
(* events are delivered to the trigger in any order.                       *)

RemoveAt(seq, i) == SubSeq(seq, 1, i - 1) \o SubSeq(seq, i + 1, Len(seq))

CompletedInputs == {JsBoolean(TRUE), JsBoolean(FALSE)}

InitPublicLink ==
    /\ now = 0
    /\ organizations = [o \in OrgIds |-> NoDoc]
    /\ emailVerifications = [u \in Uids |-> NoDoc]
    /\ users = [u \in Uids |-> userProfile]
    /\ userPublicLinks = [l \in LinkIdPool |-> NoDoc]
    /\ anonymousMessages = <<>>
    /\ orgAdmins = [a \in {} |-> NoDoc]
    /\ accounts = [a \in {} |-> NoDoc]
    /\ env = NoEnv
    /\ events = <<>>
    /\ delivered = NoEvent
    /\ inflight = NoCalls
    /\ last = NoInvocation

UpdateProfileCall ==
    \E userId \in Uids, completed \in CompletedInputs :
        updateProfile(userId, completed)

GeneratePublicLinkDelivery ==
    \E i \in 1..Len(events), linkId \in LinkIdPool :
        generatePublicLink(events[i], linkId, RemoveAt(events, i), FALSE)

\* at-least-once delivery: the event delivered last is delivered once more
GeneratePublicLinkRedelivery ==
    /\ delivered # NoEvent
    /\ \E linkId \in LinkIdPool :
           generatePublicLink(delivered.event, linkId, events, TRUE)

NextPublicLink ==
    \/ UpdateProfileCall
    \/ GeneratePublicLinkDelivery

SpecPublicLink == InitPublicLink /\ [][NextPublicLink]_vars

NextPublicLinkRedelivery ==
    \/ UpdateProfileCall
    \/ GeneratePublicLinkDelivery
    \/ GeneratePublicLinkRedelivery

SpecPublicLinkRedelivery == InitPublicLink /\ [][NextPublicLinkRedelivery]_vars

----------------------------------------------------------------------------
(* generatePublicLink, await by await, next to the link of another user.   *)
(* The handler has two awaited writes; clients may update profiles between *)
(* them.                                                                   *)

Executions == {"t1"}

\* an execution of the trigger: where it is, its event and the id it drew
execution(pc, event, linkId) == [pc |-> pc, event |-> event, linkId |-> linkId]

\* variant: the profile is updated first, the link document is set second
writeOfStep_ProfileFirst(n) == IF n = 1 THEN "users.update" ELSE "userPublicLinks.set"

\* the first awaited write sets the link document, the second updates the
\* profile
writeOfStep(n) == IF n = 1 THEN "userPublicLinks.set" ELSE "users.update"

\* the effect of one awaited write of an execution on the three collections
\* of documents and events
awaitedWrite(write, userId, linkId, pending) ==
    LET profile == users[userId]
    IN  /\ userPublicLinks' =
              IF write = "userPublicLinks.set"
              THEN [userPublicLinks EXCEPT ![linkId] = publicLink(userId, TRUE)]
              ELSE userPublicLinks
        /\ users' =
              IF write = "users.update"
              THEN [users EXCEPT ![userId] = setPublicLinkId(@, linkId)]
              ELSE users
        /\ events' =
              IF write = "users.update" /\ setPublicLinkId(profile, linkId) # profile
              THEN Append(pending, updateEvent(userId, profile,
                                               setPublicLinkId(profile, linkId)))
              ELSE pending

\* the guard, the drawing of the id and the first awaited write
beginGeneratePublicLink(t, event, linkId, rest) ==
    /\ inflight[t].pc = "idle"
    /\ IF newlyCompleted(event)
       THEN /\ awaitedWrite(writeOfStep(1), event.userId, linkId, rest)
            /\ inflight' = [inflight EXCEPT ![t] = execution("first", event, linkId)]
            /\ last' = NoInvocation
       ELSE /\ events' = rest
            /\ last' = Invocation("generatePublicLink", NoAuth,
                                  [event |-> event, redelivery |-> FALSE,
                                   firstLinkId |-> ""],
                                  "ok", "none", [linkId |-> ""])
            /\ UNCHANGED <<users, userPublicLinks, inflight>>
    /\ UNCHANGED <<now, organizations, emailVerifications, anonymousMessages,
                   orgAdmins, accounts, env, delivered>>

\* the second awaited write, and the return
finishGeneratePublicLink(t) ==
    /\ inflight[t].pc = "first"
    /\ awaitedWrite(writeOfStep(2), inflight[t].event.userId, inflight[t].linkId, events)
    /\ inflight' = [inflight EXCEPT ![t] = execution("idle", NoEvent, "")]
    /\ last' = Invocation("generatePublicLink", NoAuth,
                          [event |-> inflight[t].event, redelivery |-> FALSE,
                           firstLinkId |-> ""],
                          "ok", "none", [linkId |-> inflight[t].linkId])
    /\ UNCHANGED <<now, organizations, emailVerifications, anonymousMessages,
                   orgAdmins, accounts, env, delivered>>

\* u2 completed its profile earlier and has the link k1
OtherUser == "u2"

InitSharedLinkIds ==
    /\ now = 0
    /\ organizations = [o \in OrgIds |-> NoDoc]
    /\ emailVerifications = [u \in Uids |-> NoDoc]
    /\ users = [u \in Uids \cup {OtherUser} |->
           IF u = OtherUser
           THEN setPublicLinkId([userProfile EXCEPT !.profileCompleted = JsBoolean(TRUE)],
                                "k1")
           ELSE userProfile]
    /\ userPublicLinks = [l \in LinkIdPool |->
           IF l = "k1" THEN publicLink(OtherUser, TRUE) ELSE NoDoc]
    /\ anonymousMessages = <<>>
    /\ orgAdmins = [a \in {} |-> NoDoc]
    /\ accounts = [a \in {} |-> NoDoc]
    /\ env = NoEnv
    /\ events = <<>>
    /\ delivered = NoEvent
    /\ inflight = [t \in Executions |-> execution("idle", NoEvent, "")]
    /\ last = NoInvocation

NextSharedLinkIds ==
    \/ UpdateProfileCall
    \/ \E t \in Executions, i \in 1..Len(events), linkId \in LinkIdPool :
               beginGeneratePublicLink(t, events[i], linkId, RemoveAt(events, i))
    \/ \E t \in Executions : finishGeneratePublicLink(t)

SpecSharedLinkIds == InitSharedLinkIds /\ [][NextSharedLinkIds]_vars

----------------------------------------------------------------------------
(* Callers of the administrative functions: request.auth and the email of  *)
(* its token.                                                              *)

Unauthenticated == [authenticated |-> FALSE]
caller(email) == [authenticated |-> TRUE, email |-> email]

\* "ed22b059@smail.iitm.ac.in"
LiteralSuperAdminEmail ==
    <<"e", "d", "2", "2", "b", "0", "5", "9", "@", "s", "m", "a", "i", "l", ".",
      "i", "i", "t", "m", ".", "a", "c", ".", "i", "n">>

RootEmail      == <<"x", "@", "b", ".", "c">>
RootEmailUpper == <<"X", "@", "b", ".", "c">>
AdminEmail     == <<"a", "@", "a", ".", "c">>

AdminCallers ==
    {Unauthenticated, caller(JsUndefined), caller(JsString(LiteralSuperAdminEmail)),
     caller(JsString(RootEmail)), caller(JsString(RootEmailUpper)),
     caller(JsString(AdminEmail))}

\* process.env.SUPER_ADMIN_EMAIL: unset, or one of two addresses
SuperAdminEmailSettings == {<<>>, RootEmail, LiteralSuperAdminEmail}

\* getConfig(key, defaultValue) with key = "SUPER_ADMIN_EMAIL"
getConfig(key, defaultValue) ==
    IF env[key] # <<>> THEN env[key] ELSE defaultValue

\* the copy of getConfig that ends after the test of process.env[key]: with
\* the variable unset the function returns nothing, and the call evaluates to
\* undefined
getConfigPart000(key, defaultValue) ==
    IF env[key] # <<>> THEN JsString(env[key]) ELSE JsUndefined

\* the characters of the names of the configuration values
KeyChars ==
    [EMAIL_USER        |-> <<"E", "M", "A", "I", "L", "_", "U", "S", "E", "R">>,
     SUPER_ADMIN_EMAIL |-> <<"S", "U", "P", "E", "R", "_", "A", "D", "M", "I", "N", "_",
                             "E", "M", "A", "I", "L">>,
     DASHBOARD_URL     |-> <<"D", "A", "S", "H", "B", "O", "A", "R", "D", "_", "U", "R", "L">>,
     PORT              |-> <<"P", "O", "R", "T">>]

\* what functions.config() returns when it does not throw ([throws |-> TRUE]):
\* an object of namespaces, each an object of fields
configObject(namespaces) == [throws |-> FALSE, namespaces |-> namespaces]

\* the copy of getConfig that consults functions.config(): process.env[key],
\* then for key.toLowerCase().split("_") of length 2 config[namespace][field],
\* else defaultValue; the catch returns defaultValue
getConfigBackup(key, defaultValue, config) ==
    IF env[key] # <<>> THEN env[key]
    ELSE LET parts == split(toLowerCase(KeyChars[key]), "_")
         IN  IF Len(parts) # 2 THEN defaultValue
             ELSE IF config.throws THEN defaultValue
             ELSE IF parts[1] \notin DOMAIN config.namespaces THEN defaultValue
             ELSE IF /\ parts[2] \in DOMAIN config.namespaces[parts[1]]
                     /\ config.namespaces[parts[1]][parts[2]] # <<>>
                  THEN config.namespaces[parts[1]][parts[2]]
                  ELSE defaultValue

\* the mail handed to transporter.sendMail by an invocation, if any
NoMail == [sent |-> FALSE]
mail(to, kind) == [sent |-> TRUE, to |-> to, kind |-> kind]

----------------------------------------------------------------------------
(* The three copies of getConfig as functions of the key, of the default   *)
(* (the empty string when the caller passes none), of process.env and of   *)
(* what functions.config() does.                                           *)

ConfigDefaults == {<<>>, <<"d">>}

DeploymentConfigs ==
    {[throws |-> TRUE],
     configObject(<<>>),
     configObject([ns \in {<<"e", "m", "a", "i", "l">>} |->
                      [f \in {<<"u", "s", "e", "r">>} |-> <<"u">>]]),
     configObject([ns \in {<<"e", "m", "a", "i", "l">>, <<"s", "u", "p", "e", "r">>} |->
                      IF ns = <<"e", "m", "a", "i", "l">>
                      THEN [f \in {<<"u", "s", "e", "r">>} |-> <<>>]
                      ELSE [f \in {<<"a", "d", "m", "i", "n">>} |-> <<"r">>]])}

InitConfig ==
    /\ now = 0
    /\ organizations = [o \in OrgIds |-> NoDoc]
    /\ emailVerifications = [u \in Uids |-> NoDoc]
    /\ users = [u \in Uids |-> NoDoc]
    /\ userPublicLinks = [l \in {} |-> NoDoc]
    /\ anonymousMessages = <<>>
    /\ orgAdmins = [a \in {} |-> NoDoc]
    /\ accounts = [a \in {} |-> NoDoc]
    /\ env \in [DOMAIN KeyChars -> {<<>>, <<"v">>}]
    /\ events = <<>>
    /\ delivered = NoEvent
    /\ inflight = NoCalls
    /\ last = NoInvocation

resolved(op, key, defaultValue, config, value) ==
    /\ last' = Invocation(op, NoAuth,
                          [key |-> key, defaultValue |-> defaultValue, config |-> config],
                          "ok", "none", value)
    /\ UNCHANGED <<now, organizations, emailVerifications, users, userPublicLinks,
                   anonymousMessages, orgAdmins, accounts, env, inflight, events, delivered>>

NextConfig ==
    \/ \E key \in DOMAIN KeyChars, defaultValue \in ConfigDefaults, config \in DeploymentConfigs :
               resolved("getConfig", key, defaultValue, config,
                        JsString(getConfig(key, defaultValue)))
    \/ \E key \in DOMAIN KeyChars, defaultValue \in ConfigDefaults, config \in DeploymentConfigs :
               resolved("getConfigBackup", key, defaultValue, config,
                        JsString(getConfigBackup(key, defaultValue, config)))
    \/ \E key \in DOMAIN KeyChars, defaultValue \in ConfigDefaults, config \in DeploymentConfigs :
               resolved("getConfigPart000", key, defaultValue, config,
                        getConfigPart000(key, defaultValue))

SpecConfig == InitConfig /\ [][NextConfig]_vars

----------------------------------------------------------------------------
(* approveOrganization *)

\* variant: the two addresses are compared ignoring letter case
isApprovalSuperAdmin_IgnoreCase(auth) ==
    /\ auth.email.t = "string"
    /\ toLowerCase(auth.email.v) = toLowerCase(getConfig("SUPER_ADMIN_EMAIL", <<>>))

\* callerEmail !== getConfig("SUPER_ADMIN_EMAIL") does not hold
isApprovalSuperAdmin(auth) ==
    auth.email = JsString(getConfig("SUPER_ADMIN_EMAIL", <<>>))

\* the orgAdmins documents with the given organizationId
adminsOf(organizationId) ==
    {a \in DOMAIN orgAdmins :
        orgAdmins[a].exists /\ orgAdmins[a].organizationId = organizationId}

\* variant: an approval without an administrator to notify is an error
approveOrganizationReason_RequireAdmin(auth, organizationId, approved, smtpOk) ==
    IF ~auth.authenticated THEN "unauthenticated"
    ELSE IF ~isApprovalSuperAdmin(auth) THEN "permission-denied"
    ELSE IF organizationId = "" THEN "missing"
    ELSE IF ~getDocument(organizations, organizationId).exists THEN "no-organization"
    ELSE IF truthy(approved) /\ adminsOf(organizationId) = {} THEN "no-admin"
    ELSE IF truthy(approved) /\ adminsOf(organizationId) # {} /\ ~smtpOk THEN "smtp"
    ELSE "ok"

\* the first check or step of the handler that fails, or "ok"; updating a
\* missing organization document fails
approveOrganizationReason(auth, organizationId, approved, smtpOk) ==
    IF ~auth.authenticated THEN "unauthenticated"
    ELSE IF ~isApprovalSuperAdmin(auth) THEN "permission-denied"
    ELSE IF organizationId = "" THEN "missing"
    ELSE IF ~getDocument(organizations, organizationId).exists THEN "no-organization"
    ELSE IF truthy(approved) /\ adminsOf(organizationId) # {} /\ ~smtpOk THEN "smtp"
    ELSE "ok"

approveOrganizationThrown(reason) ==
    CASE reason = "unauthenticated"   -> "unauthenticated"
      [] reason = "permission-denied" -> "permission-denied"
      [] reason = "missing"           -> "invalid-argument"
      [] reason = "no-organization"   -> "firestore-not-found"
      [] reason = "smtp"              -> "transport-error"
      [] OTHER                        -> "none"

\* variant: the flag is the truthiness of the input
setApproved_Truthy(org, approved) ==
    [org EXCEPT !.approved = truthy(approved), !.updatedAt = now]

\* .update({approved: approved === true, updatedAt: serverTimestamp()})
setApproved(org, approved) ==
    [org EXCEPT !.approved = strictlyTrue(approved), !.updatedAt = now]

\* admin is the document that the query ...where(organizationId).limit(1)
\* returns when there is one (the store fixes no order)
approveOrganization(auth, organizationId, approved, admin, smtpOk) ==
    LET reason   == approveOrganizationReason(auth, organizationId, approved, smtpOk)
        written  == reason \in {"smtp", "ok"}
        notified == written /\ truthy(approved) /\ adminsOf(organizationId) # {}
    IN  /\ notified => admin \in adminsOf(organizationId)
        /\ organizations' =
              IF written
              THEN [organizations EXCEPT ![organizationId] = setApproved(@, approved)]
              ELSE organizations
        /\ last' = Invocation("approveOrganization", auth,
                              [organizationId |-> organizationId, approved |-> approved],
                              reason, approveOrganizationThrown(reason),
                              [written |-> written,
                               smtp |-> IF ~notified THEN "unused"
                                        ELSE IF smtpOk THEN "accepted" ELSE "refused",
                               mail |-> IF notified /\ smtpOk
                                        THEN mail(orgAdmins[admin].email, "approval")
                                        ELSE NoMail])
        /\ UNCHANGED <<now, emailVerifications, users, userPublicLinks,
                       anonymousMessages, orgAdmins, accounts, env, inflight, events, delivered>>

----------------------------------------------------------------------------
(* The approval workflow: organizations with two, one and no administrator *)
(* records, under each setting of SUPER_ADMIN_EMAIL.                       *)

orgAdmin(email, organizationId, organizationName) ==
    [exists |-> TRUE, email |-> email, organizationId |-> organizationId,
     organizationName |-> organizationName, createdAt |-> now]

ApprovedInputs ==
    {JsBoolean(TRUE), JsBoolean(FALSE), JsString(<<"y", "e", "s">>), JsNumber(1),
     JsUndefined}

InitApproval ==
    /\ now = 0
    /\ organizations = [o \in OrgIds |->
           CASE o = "o1" -> organization("Acme", <<"A", ".", "c">>)
             [] o = "o2" -> organization("Xylo", <<"x", ".", "c">>)
             [] OTHER    -> NoDoc]
    /\ emailVerifications = [u \in Uids |-> NoDoc]
    /\ users = [u \in Uids |-> userProfile]
    /\ userPublicLinks = [l \in {} |-> NoDoc]
    /\ anonymousMessages = <<>>
    /\ orgAdmins = [a \in {"a1", "a2"} |->
           IF a = "a1" THEN orgAdmin(AdminEmail, "o1", "Acme")
           ELSE orgAdmin(EmailLower, "o1", "Acme")]
    /\ accounts = [a \in {} |-> NoDoc]
    /\ env \in [{"SUPER_ADMIN_EMAIL"} -> SuperAdminEmailSettings]
    /\ events = <<>>
    /\ delivered = NoEvent
    /\ inflight = NoCalls
    /\ last = NoInvocation

\* the query result and the SMTP relay are consulted only by an invocation
\* that reaches them
ApproveOrganizationCall ==
    \E auth \in AdminCallers, organizationId \in OrgIdInputs,
       approved \in ApprovedInputs :
        IF approveOrganizationReason(auth, organizationId, approved, TRUE) = "ok"
               /\ truthy(approved) /\ adminsOf(organizationId) # {}
        THEN \E admin \in adminsOf(organizationId), smtpOk \in BOOLEAN :
                 approveOrganization(auth, organizationId, approved, admin, smtpOk)
        ELSE approveOrganization(auth, organizationId, approved, "", TRUE)

NextApproval ==
    \/ ApproveOrganizationCall

SpecApproval == InitApproval /\ [][NextApproval]_vars

----------------------------------------------------------------------------
(* The two workflows that write a document and then send an email without  *)
(* catching a failure of the relay: requests for a verification code and   *)
(* approvals, over the organizations of the approval workflow.             *)

NextMailAfterWrite ==
    \/ SendEmailVerificationCall
    \/ ApproveOrganizationCall

SpecMailAfterWrite == InitApproval /\ [][NextMailAfterWrite]_vars

----------------------------------------------------------------------------
(* approveOrganization in the copy of the functions whose getConfig ends   *)
(* after the test of process.env[key]; the handler is the same text.       *)

\* callerEmail !== getConfig("SUPER_ADMIN_EMAIL") holds for a caller who is refused
approveOrganizationReasonPart000(auth, organizationId, approved, smtpOk) ==
    IF ~auth.authenticated THEN "unauthenticated"
    ELSE IF auth.email # getConfigPart000("SUPER_ADMIN_EMAIL", <<>>) THEN "permission-denied"
    ELSE IF organizationId = "" THEN "missing"
    ELSE IF ~getDocument(organizations, organizationId).exists THEN "no-organization"
    ELSE IF truthy(approved) /\ adminsOf(organizationId) # {} /\ ~smtpOk THEN "smtp"
    ELSE "ok"

approveOrganizationPart000(auth, organizationId, approved, admin, smtpOk) ==
    LET reason   == approveOrganizationReasonPart000(auth, organizationId, approved, smtpOk)
        written  == reason \in {"smtp", "ok"}
        notified == written /\ truthy(approved) /\ adminsOf(organizationId) # {}
    IN  /\ notified => admin \in adminsOf(organizationId)
        /\ organizations' =
              IF written
              THEN [organizations EXCEPT ![organizationId] = setApproved(@, approved)]
              ELSE organizations
        /\ last' = Invocation("approveOrganization", auth,
                              [organizationId |-> organizationId, approved |-> approved],
                              reason, approveOrganizationThrown(reason),
                              [written |-> written,
                               smtp |-> IF ~notified THEN "unused"
                                        ELSE IF smtpOk THEN "accepted" ELSE "refused",
                               mail |-> IF notified /\ smtpOk
                                        THEN mail(orgAdmins[admin].email, "approval")
                                        ELSE NoMail])
        /\ UNCHANGED <<now, emailVerifications, users, userPublicLinks,
                       anonymousMessages, orgAdmins, accounts, env, inflight, events, delivered>>

NextApprovalPart000 ==
    \/ \E auth \in AdminCallers, organizationId \in OrgIdInputs,
              approved \in ApprovedInputs :
               IF approveOrganizationReasonPart000(auth, organizationId, approved, TRUE) = "ok"
                      /\ truthy(approved) /\ adminsOf(organizationId) # {}
               THEN \E admin \in adminsOf(organizationId), smtpOk \in BOOLEAN :
                        approveOrganizationPart000(auth, organizationId, approved, admin, smtpOk)
               ELSE approveOrganizationPart000(auth, organizationId, approved, "", TRUE)

SpecApprovalPart000 == InitApproval /\ [][NextApprovalPart000]_vars

----------------------------------------------------------------------------
(* createOrgAdminAndSendCredentials *)

\* variant: the check of the sibling copy of this function -- the configured
\* super-admin, or anyone whose email is in an orgAdmins record
isProvisioningSuperAdmin_OrOrgAdmin(auth) ==
    \/ auth.email = JsString(getConfig("SUPER_ADMIN_EMAIL", <<>>))
    \/ /\ auth.email.t = "string"
       /\ \E a \in DOMAIN orgAdmins :
              orgAdmins[a].exists /\ orgAdmins[a].email = auth.email.v

\* callerEmail !== "ed22b059@smail.iitm.ac.in" does not hold
isProvisioningSuperAdmin(auth) ==
    auth.email = JsString(LiteralSuperAdminEmail)

\* the identity service keeps email addresses in lower case
\* admin.auth().getUserByEmail(email): the uids found
accountsByEmail(email) ==
    {a \in DOMAIN accounts :
        accounts[a].exists /\ accounts[a].email = toLowerCase(email)}

\* admin.auth().createUser({email, password, emailVerified: false, disabled: false})
account(email, password) ==
    [exists |-> TRUE, email |-> toLowerCase(email), password |-> password,
     emailVerified |-> FALSE, disabled |-> FALSE]

\* the uids that the identity service can still hand out
freshUids == {a \in DOMAIN accounts : ~accounts[a].exists}

\* the steps at which a collaborator can fail
Faults == {"none", "getUserByEmail", "createUser", "orgAdmins.set",
           "organizations.update", "sendMail"}

\* variant: the organization is not read first; updating a missing
\* organization document fails
createOrgAdminReason_OrganizationUnchecked(auth, email, password, organizationId, organizationName, fault) ==
    IF ~auth.authenticated THEN "unauthenticated"
    ELSE IF ~isProvisioningSuperAdmin(auth) THEN "permission-denied"
    ELSE IF email = EmailMissing \/ password = "" \/ organizationId = ""
                \/ organizationName = "" THEN "missing"
    ELSE IF ~emailRegexTest(email) THEN "format"
    ELSE IF fault = "getUserByEmail" THEN "lookup-failed"
    ELSE IF accountsByEmail(email) # {} THEN "already-exists"
    ELSE IF fault = "createUser" THEN "create-failed"
    ELSE IF fault = "orgAdmins.set" THEN "admin-record-failed"
    ELSE IF fault = "organizations.update"
                \/ ~getDocument(organizations, organizationId).exists
         THEN "organization-update-failed"
    ELSE "ok"

\* variant: the account is created without a lookup of the email
createOrgAdminReason_NoExistenceProbe(auth, email, password, organizationId, organizationName, fault) ==
    IF ~auth.authenticated THEN "unauthenticated"
    ELSE IF ~isProvisioningSuperAdmin(auth) THEN "permission-denied"
    ELSE IF email = EmailMissing \/ password = "" \/ organizationId = ""
                \/ organizationName = "" THEN "missing"
    ELSE IF ~emailRegexTest(email) THEN "format"
    ELSE IF ~getDocument(organizations, organizationId).exists THEN "no-organization"
    ELSE IF fault = "createUser" THEN "create-failed"
    ELSE IF fault = "orgAdmins.set" THEN "admin-record-failed"
    ELSE IF fault = "organizations.update" THEN "organization-update-failed"
    ELSE "ok"

\* variant: sendMail is awaited without a try/catch of its own
createOrgAdminReason_SendMailUncaught(auth, email, password, organizationId, organizationName, fault) ==
    IF ~auth.authenticated THEN "unauthenticated"
    ELSE IF ~isProvisioningSuperAdmin(auth) THEN "permission-denied"
    ELSE IF email = EmailMissing \/ password = "" \/ organizationId = ""
                \/ organizationName = "" THEN "missing"
    ELSE IF ~emailRegexTest(email) THEN "format"
    ELSE IF ~getDocument(organizations, organizationId).exists THEN "no-organization"
    ELSE IF fault = "getUserByEmail" THEN "lookup-failed"
    ELSE IF accountsByEmail(email) # {} THEN "already-exists"
    ELSE IF fault = "createUser" THEN "create-failed"
    ELSE IF fault = "orgAdmins.set" THEN "admin-record-failed"
    ELSE IF fault = "organizations.update" THEN "organization-update-failed"
    ELSE IF fault = "sendMail" THEN "send-failed"
    ELSE "ok"

\* the first check or step of the handler that fails, or "ok"; a failure
\* of sendMail is caught and is not a failure of the handler
createOrgAdminReason(auth, email, password, organizationId, organizationName, fault) ==
    IF ~auth.authenticated THEN "unauthenticated"
    ELSE IF ~isProvisioningSuperAdmin(auth) THEN "permission-denied"
    ELSE IF email = EmailMissing \/ password = "" \/ organizationId = ""
                \/ organizationName = "" THEN "missing"
    ELSE IF ~emailRegexTest(email) THEN "format"
    ELSE IF ~getDocument(organizations, organizationId).exists THEN "no-organization"
    ELSE IF fault = "getUserByEmail" THEN "lookup-failed"
    ELSE IF accountsByEmail(email) # {} THEN "already-exists"
    ELSE IF fault = "createUser" THEN "create-failed"
    ELSE IF fault = "orgAdmins.set" THEN "admin-record-failed"
    ELSE IF fault = "organizations.update" THEN "organization-update-failed"
    ELSE "ok"

createOrgAdminThrown(reason) ==
    CASE reason = "unauthenticated"            -> "unauthenticated"
      [] reason = "permission-denied"          -> "permission-denied"
      [] reason = "missing"                    -> "invalid-argument"
      [] reason = "format"                     -> "invalid-argument"
      [] reason = "no-organization"            -> "not-found"
      [] reason = "lookup-failed"              -> "auth-error"
      [] reason = "already-exists"             -> "already-exists"
      [] reason = "create-failed"              -> "auth-error"
      [] reason = "admin-record-failed"        -> "firestore-error"
      [] reason = "organization-update-failed" -> "firestore-error"
      [] OTHER                                 -> "none"

\* variant: the organization is updated before the orgAdmins record is set
completedSteps_UpdateBeforeRecord(reason) ==
    IF reason \in {"unauthenticated", "permission-denied", "missing", "format",
                   "no-organization", "lookup-failed", "already-exists",
                   "create-failed"}
    THEN {}
    ELSE IF reason = "admin-record-failed" THEN {"createUser", "organizations.update"}
    ELSE IF reason = "organization-update-failed" THEN {"createUser"}
    ELSE {"createUser", "orgAdmins.set", "organizations.update"}

\* the writes that the handler had completed when it stopped: createUser,
\* then orgAdmins.set, then organizations.update, each awaited in turn
completedSteps(reason) ==
    IF reason \in {"unauthenticated", "permission-denied", "missing", "format",
                   "no-organization", "lookup-failed", "already-exists",
                   "create-failed"}
    THEN {}
    ELSE IF reason = "admin-record-failed" THEN {"createUser"}
    ELSE IF reason = "organization-update-failed" THEN {"createUser", "orgAdmins.set"}
    ELSE {"createUser", "orgAdmins.set", "organizations.update"}

\* variant: the new id is written twice
addAdminUser_Doubled(org, uid) ==
    IF \E i \in 1..Len(org.adminUsers) : org.adminUsers[i] = uid
    THEN org
    ELSE [org EXCEPT !.adminUsers = Append(Append(@, uid), uid), !.updatedAt = now]

\* adminUsers.includes(uid) ? unchanged : [...adminUsers, uid]
addAdminUser(org, uid) ==
    IF \E i \in 1..Len(org.adminUsers) : org.adminUsers[i] = uid
    THEN org
    ELSE [org EXCEPT !.adminUsers = Append(@, uid), !.updatedAt = now]

\* uid is the id that createUser assigns
createOrgAdminAndSendCredentials(auth, email, password, organizationId, organizationName, uid, fault) ==
    LET reason  == createOrgAdminReason(auth, email, password, organizationId,
                                        organizationName, fault)
        created  == "createUser" \in completedSteps(reason)
        recorded == "orgAdmins.set" \in completedSteps(reason)
        listed   == "organizations.update" \in completedSteps(reason)
        mailed   == completedSteps(reason)
                        = {"createUser", "orgAdmins.set", "organizations.update"}
    IN  /\ created => uid \in freshUids
        /\ accounts' =
              IF created
              THEN [accounts EXCEPT ![uid] = account(email, password)]
              ELSE accounts
        /\ orgAdmins' =
              IF recorded
              THEN [orgAdmins EXCEPT
                        ![uid] = orgAdmin(email, organizationId, organizationName)]
              ELSE orgAdmins
        /\ organizations' =
              IF listed
              THEN [organizations EXCEPT ![organizationId] = addAdminUser(@, uid)]
              ELSE organizations
        /\ last' = Invocation("createOrgAdminAndSendCredentials", auth,
                              [email |-> email, password |-> password,
                               organizationId |-> organizationId,
                               organizationName |-> organizationName],
                              reason, createOrgAdminThrown(reason),
                              [userId |-> IF created THEN uid ELSE "",
                               emailSent |-> mailed /\ fault # "sendMail",
                               smtp |-> IF ~mailed THEN "unused"
                                        ELSE IF fault = "sendMail" THEN "refused"
                                        ELSE "accepted",
                               mail |-> IF mailed /\ fault # "sendMail"
                                        THEN mail(email, "credentials")
                                        ELSE NoMail])
        /\ UNCHANGED <<now, emailVerifications, users, userPublicLinks,
                       anonymousMessages, env, inflight, events, delivered>>

----------------------------------------------------------------------------
(* The provisioning workflow: any caller, under each setting of            *)
(* SUPER_ADMIN_EMAIL.  One administrator of o1 exists from the start.      *)

AccountIds == {"a1", "n1", "n2"}
\* request.data: complete requests, and requests with one field missing or
\* unusable
createOrgAdminData(email, password, organizationId, organizationName) ==
    [email |-> email, password |-> password, organizationId |-> organizationId,
     organizationName |-> organizationName]

CreateOrgAdminInputs ==
    {createOrgAdminData(EmailLower, "pw", "o1", "Acme"),
     createOrgAdminData(EmailOther, "pw", "o1", "Acme"),
     createOrgAdminData(EmailOther, "pw", "o2", "Xylo"),
     createOrgAdminData(AdminEmail, "pw", "o2", "Xylo"),
     createOrgAdminData(EmailMissing, "pw", "o1", "Acme"),
     createOrgAdminData(EmailNoDot, "pw", "o1", "Acme"),
     createOrgAdminData(EmailLower, "", "o1", "Acme"),
     createOrgAdminData(EmailLower, "pw", "", "Acme"),
     createOrgAdminData(EmailLower, "pw", "o3", "Acme"),
     createOrgAdminData(EmailLower, "pw", "o1", "")}

InitProvisioning ==
    /\ now = 0
    /\ organizations = [o \in OrgIds |->
           CASE o = "o1" -> [organization("Acme", <<"A", ".", "c">>)
                                 EXCEPT !.adminUsers = <<"a1">>]
             [] o = "o2" -> organization("Xylo", <<"x", ".", "c">>)
             [] OTHER    -> NoDoc]
    /\ emailVerifications = [u \in Uids |-> NoDoc]
    /\ users = [u \in Uids |-> userProfile]
    /\ userPublicLinks = [l \in {} |-> NoDoc]
    /\ anonymousMessages = <<>>
    /\ orgAdmins = [a \in AccountIds |->
           IF a = "a1" THEN orgAdmin(AdminEmail, "o1", "Acme") ELSE NoDoc]
    /\ accounts = [a \in AccountIds |->
           IF a = "a1" THEN account(AdminEmail, "pw") ELSE NoDoc]
    /\ env \in [{"SUPER_ADMIN_EMAIL"} -> SuperAdminEmailSettings]
    /\ events = <<>>
    /\ delivered = NoEvent
    /\ inflight = NoCalls
    /\ last = NoInvocation

\* the identity service, the store and the SMTP relay are consulted only by
\* an invocation that passes validation
CreateOrgAdminCall ==
    \E auth \in AdminCallers, data \in CreateOrgAdminInputs :
        IF createOrgAdminReason(auth, data.email, data.password, data.organizationId,
                                data.organizationName, "none")
               \notin {"unauthenticated", "permission-denied", "missing", "format",
                       "no-organization"}
        THEN \E fault \in Faults, uid \in freshUids \cup {""} :
                 createOrgAdminAndSendCredentials(auth, data.email, data.password,
                     data.organizationId, data.organizationName, uid, fault)
        ELSE createOrgAdminAndSendCredentials(auth, data.email, data.password,
                 data.organizationId, data.organizationName, "", "none")

NextProvisioning ==
    \/ CreateOrgAdminCall

SpecProvisioning == InitProvisioning /\ [][NextProvisioning]_vars

----------------------------------------------------------------------------
(* createOrgAdminAndSendCredentials, await by await: two invocations by    *)
(* the super-admin run at the same time.                                   *)

Provisioners == {"p1", "p2"}

\* an invocation: where it is, its request.data, the snapshot of the
\* organization that it read, and the account it created
provisioning(pc, data, orgData, userId, emailSent) ==
    [pc |-> pc, email |-> data.email, password |-> data.password,
     organizationId |-> data.organizationId,
     organizationName |-> data.organizationName,
     orgData |-> orgData, userId |-> userId, emailSent |-> emailSent]

\* the checks of the caller and of request.data, and await orgRef.get()
readOrganization(p, auth, data) ==
    /\ inflight[p].pc = "idle"
    /\ createOrgAdminReason(auth, data.email, data.password, data.organizationId,
                            data.organizationName, "getUserByEmail") = "lookup-failed"
    /\ inflight' = [inflight EXCEPT ![p] =
           provisioning("orgDoc", data, organizations[data.organizationId], "", FALSE)]
    /\ UNCHANGED <<now, organizations, emailVerifications, users, userPublicLinks,
                   anonymousMessages, orgAdmins, accounts, env, events, delivered, last>>

\* the invocation throws: what the caller is told
provisioningThrows(p, auth, reason) ==
    Invocation("createOrgAdminAndSendCredentials", auth,
               createOrgAdminData(inflight[p].email, inflight[p].password,
                                  inflight[p].organizationId, inflight[p].organizationName),
               reason, createOrgAdminThrown(reason),
               [userId |-> "", emailSent |-> FALSE, smtp |-> "unused", mail |-> NoMail])

\* await admin.auth().getUserByEmail(email): a miss lets the handler go on
lookupAccount(p, auth) ==
    /\ inflight[p].pc = "orgDoc"
    /\ IF accountsByEmail(inflight[p].email) = {}
       THEN /\ inflight' = [inflight EXCEPT ![p] = [@ EXCEPT !.pc = "lookup"]]
            /\ last' = last
       ELSE /\ inflight' = [inflight EXCEPT ![p] = [@ EXCEPT !.pc = "done"]]
            /\ last' = provisioningThrows(p, auth, "already-exists")
    /\ UNCHANGED <<now, organizations, emailVerifications, users, userPublicLinks,
                   anonymousMessages, orgAdmins, accounts, env, events, delivered>>

\* await admin.auth().createUser({...}); the identity service refuses an
\* email that has an account by now
createAccount(p, auth, uid) ==
    /\ inflight[p].pc = "lookup"
    /\ IF accountsByEmail(inflight[p].email) = {}
       THEN /\ uid \in freshUids
            /\ accounts' = [accounts EXCEPT
                                ![uid] = account(inflight[p].email, inflight[p].password)]
            /\ inflight' = [inflight EXCEPT ![p] =
                   [@ EXCEPT !.pc = "userRecord", !.userId = uid]]
            /\ last' = last
       ELSE /\ accounts' = accounts
            /\ inflight' = [inflight EXCEPT ![p] = [@ EXCEPT !.pc = "done"]]
            /\ last' = provisioningThrows(p, auth, "create-failed")
    /\ UNCHANGED <<now, organizations, emailVerifications, users, userPublicLinks,
                   anonymousMessages, orgAdmins, env, events, delivered>>

\* await ...collection("orgAdmins").doc(userRecord.uid).set({...})
setOrgAdmin(p) ==
    /\ inflight[p].pc = "userRecord"
    /\ orgAdmins' = [orgAdmins EXCEPT ![inflight[p].userId] =
           orgAdmin(inflight[p].email, inflight[p].organizationId,
                    inflight[p].organizationName)]
    /\ inflight' = [inflight EXCEPT ![p] = [@ EXCEPT !.pc = "orgAdmins"]]
    /\ UNCHANGED <<now, organizations, emailVerifications, users, userPublicLinks,
                   anonymousMessages, accounts, env, events, delivered, last>>

\* const adminUsers = orgData.adminUsers || []; if it does not include the
\* uid, orgRef.update({adminUsers: [...adminUsers, uid], updatedAt}): the list
\* written is the list of the snapshot read at the start, plus the uid
updatedAdminUsers(org, orgData, uid) ==
    IF \E i \in 1..Len(orgData.adminUsers) : orgData.adminUsers[i] = uid
    THEN org
    ELSE [org EXCEPT !.adminUsers = Append(orgData.adminUsers, uid), !.updatedAt = now]

\* await orgRef.update({...})
updateOrganization(p) ==
    /\ inflight[p].pc = "orgAdmins"
    /\ organizations' = [organizations EXCEPT ![inflight[p].organizationId] =
           updatedAdminUsers(@, inflight[p].orgData, inflight[p].userId)]
    /\ inflight' = [inflight EXCEPT ![p] = [@ EXCEPT !.pc = "adminUsers"]]
    /\ UNCHANGED <<now, emailVerifications, users, userPublicLinks,
                   anonymousMessages, orgAdmins, accounts, env, events, delivered, last>>

\* await transporter.sendMail(mailOptions) in its try/catch, and the return
sendCredentialsMail(p, auth, smtpOk) ==
    /\ inflight[p].pc = "adminUsers"
    /\ inflight' = [inflight EXCEPT ![p] = [@ EXCEPT !.pc = "done", !.emailSent = smtpOk]]
    /\ last' = Invocation("createOrgAdminAndSendCredentials", auth,
                          createOrgAdminData(inflight[p].email, inflight[p].password,
                                             inflight[p].organizationId,
                                             inflight[p].organizationName),
                          "ok", "none",
                          [userId |-> inflight[p].userId, emailSent |-> smtpOk,
                           smtp |-> IF smtpOk THEN "accepted" ELSE "refused",
                           mail |-> IF smtpOk THEN mail(inflight[p].email, "credentials")
                                    ELSE NoMail])
    /\ UNCHANGED <<now, organizations, emailVerifications, users, userPublicLinks,
                   anonymousMessages, orgAdmins, accounts, env, events, delivered>>

----------------------------------------------------------------------------
(* The provisioning workflow under concurrency: the super-admin provisions *)
(* two administrators, for o1 or o2, with complete requests.               *)

InitConcurrentProvisioning ==
    /\ now = 0
    /\ organizations = [o \in OrgIds |->
           CASE o = "o1" -> [organization("Acme", <<"A", ".", "c">>)
                                 EXCEPT !.adminUsers = <<"a1">>]
             [] o = "o2" -> organization("Xylo", <<"x", ".", "c">>)
             [] OTHER    -> NoDoc]
    /\ emailVerifications = [u \in Uids |-> NoDoc]
    /\ users = [u \in Uids |-> userProfile]
    /\ userPublicLinks = [l \in {} |-> NoDoc]
    /\ anonymousMessages = <<>>
    /\ orgAdmins = [a \in AccountIds |->
           IF a = "a1" THEN orgAdmin(AdminEmail, "o1", "Acme") ELSE NoDoc]
    /\ accounts = [a \in AccountIds |->
           IF a = "a1" THEN account(AdminEmail, "pw") ELSE NoDoc]
    /\ env = NoEnv
    /\ events = <<>>
    /\ delivered = NoEvent
    /\ inflight = [p \in Provisioners |->
           provisioning("idle", createOrgAdminData(EmailMissing, "", "", ""), NoDoc, "", FALSE)]
    /\ last = NoInvocation

NextConcurrentProvisioning ==
    \/ \E p \in Provisioners,
          data \in {createOrgAdminData(EmailLower, "pw", "o1", "Acme"),
                    createOrgAdminData(EmailOther, "pw", "o1", "Acme"),
                    createOrgAdminData(EmailOther, "pw", "o2", "Xylo")} :
               readOrganization(p, caller(JsString(LiteralSuperAdminEmail)), data)
    \/ \E p \in Provisioners : lookupAccount(p, caller(JsString(LiteralSuperAdminEmail)))
    \/ \E p \in Provisioners, uid \in freshUids \cup {""} :
               createAccount(p, caller(JsString(LiteralSuperAdminEmail)), uid)
    \/ \E p \in Provisioners : setOrgAdmin(p)
    \/ \E p \in Provisioners : updateOrganization(p)
    \/ \E p \in Provisioners, smtpOk \in BOOLEAN :
               sendCredentialsMail(p, caller(JsString(LiteralSuperAdminEmail)), smtpOk)

SpecConcurrentProvisioning ==
    InitConcurrentProvisioning /\ [][NextConcurrentProvisioning]_vars

----------------------------------------------------------------------------
(* Vocabulary of the properties *)

\* the part of an email after its "@"
DomainPart(email) ==
    LET at == CHOOSE i \in 1..Len(email) : email[i] = "@"
    IN  SubSeq(email, at + 1, Len(email))

\* equality of two strings up to letter case
SameIgnoringCase(s, t) ==
    /\ Len(s) = Len(t)
    /\ \A i \in 1..Len(s) : toLowerCaseChar(s[i]) = toLowerCaseChar(t[i])

DigitValue(c) == (CHOOSE i \in 1..10 : Digits[i] = c) - 1

RECURSIVE DecimalValue(_)
DecimalValue(s) ==
    IF s = <<>> THEN 0
    ELSE 10 * DecimalValue(SubSeq(s, 1, Len(s) - 1)) + DigitValue(s[Len(s)])

IsDigit(c) == \E i \in 1..10 : Digits[i] = c

\* the last invocation was sendEmailVerification by an authenticated caller
\* with a well-formed email for an existing organization
WellFormedRequest ==
    /\ last.op = "sendEmailVerification"
    /\ last.auth # NoAuth
    /\ emailRegexTest(last.args.email)
    /\ last.args.organizationId \in OrgIds
    /\ organizations[last.args.organizationId].exists

RequestDomainMatches ==
    SameIgnoringCase(DomainPart(last.args.email),
                     organizations[last.args.organizationId].domain)

\* the last invocation was verifyEmailOtp by a caller who has a record
ConfirmWithRecord ==
    /\ last.op = "verifyEmailOtp"
    /\ last.auth # NoAuth
    /\ last.args.otp # OtpMissing
    /\ emailVerifications[last.auth].exists

----------------------------------------------------------------------------
(* C1: for an existing organization and a well-formed email from an        *)
(* authenticated caller, sendEmailVerification succeeds if and only if the *)
(* email's domain equals the organization's domain up to letter case.      *)
(* As stated this fails: the call also fails when the SMTP relay refuses   *)
(* the message, although the domains match.                                *)
C1_SucceedsIffDomainMatches ==
    WellFormedRequest => (last.success <=> RequestDomainMatches)

(* C1 as amended: ... succeeds if and only if the domains are equal up to  *)
(* letter case and the SMTP relay accepts the verification email.          *)
C1_SucceedsIffDomainMatchesAndMailed ==
    WellFormedRequest =>
        (last.success <=> (RequestDomainMatches /\ last.result.smtp # "refused"))

\* a mixed-case email accepted for the organization whose domain is stored
\* with an upper-case letter
C1_Witness ==
    /\ WellFormedRequest
    /\ last.success
    /\ last.args.email = EmailUpper
    /\ organizations[last.args.organizationId].domain # DomainPart(EmailUpper)
    /\ organizations[last.args.organizationId].domain
           # toLowerCase(organizations[last.args.organizationId].domain)

(* C2: every otp stored in an emailVerifications document is a string of   *)
(* exactly four decimal digits denoting an integer from 1000 to 9999.      *)
C2_OtpIsFourDigits ==
    \A u \in Uids :
        emailVerifications[u].exists =>
            LET otp == emailVerifications[u].otp
            IN  /\ Len(otp) = 4
                /\ \A i \in 1..Len(otp) : IsDigit(otp[i])
                /\ DecimalValue(otp) >= 1000
                /\ DecimalValue(otp) <= 9999

\* a stored code drawn with the largest random number
C2_Witness ==
    \E u \in Uids :
        /\ emailVerifications[u].exists
        /\ emailVerifications[u].otp = generateOtp(RandomDenominator - 1)
        /\ last.op = "sendEmailVerification"
        /\ last.result.stored

(* C3: verifyEmailOtp called by the record's owner with exactly the stored *)
(* code, not after expiresAt, succeeds -- also when the record was already *)
(* verified by an earlier call.  As stated this fails for a caller without *)
(* a users/{uid} document: the profile update throws.                      *)
C3_StoredCodeSucceeds ==
    (/\ ConfirmWithRecord
     /\ last.args.otp = emailVerifications[last.auth].otp
     /\ now <= emailVerifications[last.auth].expiresAt)
        => last.success

(* C3 as amended: ... succeeds, and succeeds again on a second call,       *)
(* provided the caller's user profile document exists.                     *)
C3_StoredCodeSucceedsWithProfile ==
    (/\ ConfirmWithRecord
     /\ last.args.otp = emailVerifications[last.auth].otp
     /\ now <= emailVerifications[last.auth].expiresAt
     /\ users[last.auth].exists)
        => last.success

\* a second confirmation with the same code, at the very instant of expiry
C3_Witness ==
    /\ ConfirmWithRecord
    /\ last.success
    /\ last.result.wasVerified
    /\ now = emailVerifications[last.auth].expiresAt

(* C4: verifyEmailOtp called strictly after the record's expiresAt fails   *)
(* with error code deadline-exceeded whatever code is supplied, and a call *)
(* at exactly expiresAt is not treated as expired.  The handler throws     *)
(* deadline-exceeded, but its catch block rethrows it as "internal".       *)
C4_ExpiredIsDeadlineExceeded ==
    ConfirmWithRecord =>
        /\ now > emailVerifications[last.auth].expiresAt
               => (~last.success /\ last.code = "deadline-exceeded")
        /\ now = emailVerifications[last.auth].expiresAt
               => last.code # "deadline-exceeded"

(* C5: verifyEmailOtp called not after expiresAt with a code that is not   *)
(* string-equal to the stored code fails with error code invalid-argument. *)
(* The handler throws invalid-argument, but its catch block rethrows it as *)
(* "internal".                                                             *)
C5_MismatchIsInvalidArgument ==
    (/\ ConfirmWithRecord
     /\ now <= emailVerifications[last.auth].expiresAt
     /\ last.args.otp # emailVerifications[last.auth].otp)
        => (~last.success /\ last.code = "invalid-argument")

(* C6: a verifyEmailOtp call rejected because the otp is missing, the      *)
(* caller has no record, the record is expired or the code does not match  *)
(* leaves the emailVerifications and users collections unchanged.          *)
C6_RejectedConfirmChangesNothing ==
    [][(/\ last'.op = "verifyEmailOtp"
        /\ last'.auth # NoAuth
        /\ ~last'.success
        /\ \/ last'.args.otp = OtpMissing
           \/ ~emailVerifications[last'.auth].exists
           \/ emailVerifications[last'.auth].expiresAt < now
           \/ emailVerifications[last'.auth].otp # last'.args.otp)
       => (emailVerifications' = emailVerifications /\ users' = users)]_vars

\* a wrong code was just rejected for an unexpired, unverified record
C6_Witness ==
    /\ ConfirmWithRecord
    /\ ~last.success
    /\ now <= emailVerifications[last.auth].expiresAt
    /\ last.args.otp # emailVerifications[last.auth].otp
    /\ ~emailVerifications[last.auth].verified
    /\ users[last.auth].exists

C8_RequestReplacesRecord ==
    (last.op = "sendEmailVerification" /\ last.success) =>
        emailVerifications[last.auth] =
            [exists         |-> TRUE,
             email          |-> last.args.email,
             otp            |-> last.result.otp,
             organizationId |-> last.args.organizationId,
             createdAt      |-> now,
             expiresAt      |-> now + 15,
             verified       |-> FALSE,
             verifiedAt     |-> NoField]

\* a successful request that replaced a verified record
C8_Witness ==
    /\ last.op = "sendEmailVerification"
    /\ last.success
    /\ last.result.wasVerified
    /\ last.args.organizationId = "o2"

(* C9: verified is terminal -- once a record has verified = true no later  *)
(* operation makes it false again.  As stated this fails: a later          *)
(* sendEmailVerification by the same user replaces the record with an      *)
(* unverified one.                                                         *)
C9_VerifiedIsTerminal ==
    [][\A u \in Uids :
          (emailVerifications[u].exists /\ emailVerifications[u].verified)
              => (emailVerifications'[u].exists /\ emailVerifications'[u].verified)]_vars

(* C9 as amended: a record with verified = true stays verified until a     *)
(* later sendEmailVerification by the same user passes validation and      *)
(* replaces it; no other operation makes it false.                         *)
C9_VerifiedUntilReplaced ==
    [][\A u \in Uids :
          (/\ emailVerifications[u].exists
           /\ emailVerifications[u].verified
           /\ ~(emailVerifications'[u].exists /\ emailVerifications'[u].verified))
              => (/\ last'.op = "sendEmailVerification"
                  /\ last'.auth = u
                  /\ last'.result.stored)]_vars

\* a verified record that has outlived its expiry and a rejected confirmation
C9_Witness ==
    /\ ConfirmWithRecord
    /\ ~last.success
    /\ emailVerifications[last.auth].verified
    /\ now > emailVerifications[last.auth].expiresAt

(* C10: submitAnonymousMessage addressed to an existing link whose         *)
(* isActive is false fails with error code failed-precondition, also when  *)
(* the link's owning user does not exist.  The handler throws              *)
(* failed-precondition, but its catch block rethrows it as "internal".     *)
C10_InactiveLinkIsFailedPrecondition ==
    (/\ last.op = "submitAnonymousMessage"
     /\ last.args.message # ""
     /\ last.args.senderName # ""
     /\ last.args.linkId \in DOMAIN userPublicLinks
     /\ userPublicLinks[last.args.linkId].exists
     /\ ~userPublicLinks[last.args.linkId].isActive)
        => (~last.success /\ last.code = "failed-precondition")

(* C11: submitAnonymousMessage addressed to an inactive link creates no    *)
(* anonymousMessages document and changes no field of that link, its       *)
(* messageCount included.                                                  *)
C11_InactiveLinkNoEffect ==
    [][(/\ last'.op = "submitAnonymousMessage"
        /\ last'.args.linkId \in DOMAIN userPublicLinks
        /\ userPublicLinks[last'.args.linkId].exists
        /\ ~userPublicLinks[last'.args.linkId].isActive)
       => (/\ anonymousMessages' = anonymousMessages
           /\ userPublicLinks'[last'.args.linkId] = userPublicLinks[last'.args.linkId])]_vars

\* a complete submission to the inactive link of an existing user, made
\* after messages to that user's active link were stored
C11_Witness ==
    /\ last.op = "submitAnonymousMessage"
    /\ last.args.linkId = "l2"
    /\ last.args.message # ""
    /\ last.args.senderName # ""
    /\ ~userPublicLinks["l2"].isActive
    /\ users[userPublicLinks["l2"].userId].exists
    /\ Len(anonymousMessages) > 0

\* the public links owned by a user
LinksOf(userId) ==
    {l \in DOMAIN userPublicLinks :
        userPublicLinks[l].exists /\ userPublicLinks[l].userId = userId}

(* C12: delivering the same update event twice in succession, with         *)
(* profileCompleted going from false/absent to true and no publicLinkId in *)
(* the after snapshot, creates at most one public link for that user.      *)
(* The guard reads the event's snapshots, not the stored profile, so the   *)
(* second delivery passes it again and writes a link under a fresh id.     *)
C12_ReplayCreatesAtMostOneLink ==
    (/\ last.op = "generatePublicLink"
     /\ last.args.redelivery
     /\ newlyCompleted(last.args.event))
        => Cardinality(LinksOf(last.args.event.userId)
                           \cap {last.args.firstLinkId, last.result.linkId}) <= 1

(* C13: in every reachable state, under any sequence of profile updates    *)
(* and trigger executions, at most one public link has a given userId.     *)
(* Completing, un-completing and completing the profile again before the   *)
(* first event is handled leaves two events that both pass the guard.      *)
C13_AtMostOneLinkPerUser ==
    \A u \in Uids : Cardinality(LinksOf(u)) <= 1

\* the last invocation was approveOrganization, and the organization it
\* names exists
ApprovalOfExisting ==
    /\ last.op = "approveOrganization"
    /\ last.args.organizationId \in DOMAIN organizations
    /\ organizations[last.args.organizationId].exists

\* the caller's email is, character for character, the configured
\* super-admin email
IsConfiguredSuperAdmin(auth) ==
    /\ auth.authenticated
    /\ auth.email.t = "string"
    /\ env["SUPER_ADMIN_EMAIL"] # <<>>
    /\ auth.email.v = env["SUPER_ADMIN_EMAIL"]

(* C14: approveOrganization called by the super-admin with approved = true *)
(* for an existing organization without any orgAdmins record returns       *)
(* success, sends no email, and the organization's approved flag is true.  *)
C14_ApprovalWithoutAdmin ==
    (/\ ApprovalOfExisting
     /\ IsConfiguredSuperAdmin(last.auth)
     /\ last.args.approved = JsBoolean(TRUE)
     /\ \A a \in DOMAIN orgAdmins :
            orgAdmins[a].exists
                => orgAdmins[a].organizationId # last.args.organizationId)
        => (/\ last.success
            /\ ~last.result.mail.sent
            /\ organizations[last.args.organizationId].approved = TRUE)

\* the organization without administrators has just been approved
C14_Witness ==
    /\ ApprovalOfExisting
    /\ last.args.organizationId = "o2"
    /\ last.args.approved = JsBoolean(TRUE)
    /\ last.success
    /\ organizations["o2"].approved

(* C16: when approveOrganization has written the approved flag and only    *)
(* the approval email fails to send, the call reports partial success.     *)
(* The handler has no try/catch around sendMail: the transport error       *)
(* reaches the outer catch and the call fails with "internal".             *)
C16_ApprovalEmailFailureIsPartialSuccess ==
    (/\ last.op = "approveOrganization"
     /\ last.result.written
     /\ last.result.smtp = "refused")
        => last.success

(* C19: approveOrganization changes an organization and sends mail only    *)
(* for a caller whose email is exactly the configured super-admin email;   *)
(* for every other caller, one whose email differs only in letter case     *)
(* included, the organizations are unchanged and no email is sent.         *)
C19_OnlySuperAdminApproves ==
    [][(last'.op = "approveOrganization" /\ ~IsConfiguredSuperAdmin(last'.auth))
          => (organizations' = organizations /\ ~last'.result.mail.sent)]_vars

\* the super-admin's address in another letter case was turned away from an
\* unapproved organization that has an administrator to notify
C19_Witness ==
    /\ ApprovalOfExisting
    /\ last.auth = caller(JsString(RootEmailUpper))
    /\ env["SUPER_ADMIN_EMAIL"] = RootEmail
    /\ last.args.organizationId = "o1"
    /\ last.args.approved = JsBoolean(TRUE)
    /\ ~last.success
    /\ ~organizations["o1"].approved

(* C20: the approved value that approveOrganization writes is a boolean:   *)
(* true exactly when the approved input is the boolean true, false for     *)
(* every other input, a truthy non-boolean and a missing one included.     *)
C20_ApprovedIsStrictBoolean ==
    (last.op = "approveOrganization" /\ last.result.written) =>
        /\ organizations[last.args.organizationId].approved \in BOOLEAN
        /\ organizations[last.args.organizationId].approved
               <=> (last.args.approved = JsBoolean(TRUE))

\* a truthy string was stored as false over an earlier approval
C20_Witness ==
    /\ last.op = "approveOrganization"
    /\ last.result.written
    /\ last.args.approved = JsString(<<"y", "e", "s">>)
    /\ organizations[last.args.organizationId].approved = FALSE
    /\ \E o \in OrgIds : organizations[o].exists /\ organizations[o].approved

\* the members of a list
Elements(seq) == {seq[i] : i \in 1..Len(seq)}

\* the caller's email is the address that createOrgAdminAndSendCredentials
\* is pinned to
IsPinnedSuperAdmin(auth) ==
    /\ auth.authenticated
    /\ auth.email.t = "string"
    /\ auth.email.v = LiteralSuperAdminEmail

(* C15: when createOrgAdminAndSendCredentials has created the account and  *)
(* the SMTP send then fails, the call returns success = true with          *)
(* emailSent = false and the new userId, and the account, the orgAdmins    *)
(* record keyed by that userId and the adminUsers entry are in place.      *)
C15_EmailFailureIsPartialSuccess ==
    (last.op = "createOrgAdminAndSendCredentials" /\ last.result.smtp = "refused") =>
        /\ last.success
        /\ ~last.result.emailSent
        /\ last.result.userId \in DOMAIN accounts
        /\ accounts[last.result.userId].exists
        /\ SameIgnoringCase(accounts[last.result.userId].email, last.args.email)
        /\ orgAdmins[last.result.userId].exists
        /\ orgAdmins[last.result.userId].email = last.args.email
        /\ orgAdmins[last.result.userId].organizationId = last.args.organizationId
        /\ last.result.userId
               \in Elements(organizations[last.args.organizationId].adminUsers)

\* a second administrator of o1 was provisioned while the relay was down
C15_Witness ==
    /\ last.op = "createOrgAdminAndSendCredentials"
    /\ last.result.smtp = "refused"
    /\ last.args.organizationId = "o1"
    /\ Len(organizations["o1"].adminUsers) = 2

C18_OneSuperAdmin ==
    (last.op = "createOrgAdminAndSendCredentials" /\ last.auth.authenticated) =>
        (last.reason # "permission-denied" <=> isApprovalSuperAdmin(last.auth))

\* the account ids listed in an organization's adminUsers
AdminUsersOf(orgs, o) ==
    IF orgs[o].exists THEN Elements(orgs[o].adminUsers) ELSE {}

C22_ExistingAccountIsAlreadyExists ==
    /\ (last.op = "createOrgAdminAndSendCredentials" /\ last.reason = "already-exists")
          => last.code = "already-exists"
    /\ (last.op = "createOrgAdminAndSendCredentials" /\ last.reason = "lookup-failed")
          => (~last.success /\ last.result.userId = "")

(* C23: a function that requires an authenticated caller, invoked without  *)
(* request.auth, fails with error kind unauthenticated and reads and       *)
(* writes nothing.                                                         *)
C23_NoAuthIsUnauthenticated ==
    /\ (last.op = "createOrgAdminAndSendCredentials" /\ ~last.auth.authenticated)
          => last.code = "unauthenticated"

(* C25: when createOrgAdminAndSendCredentials fails after createUser, the  *)
(* account stays; no later call changes the account, writes an orgAdmins   *)
(* record under its id or lists its id in adminUsers, and every later call *)
(* with the account's email fails.                                         *)
C25_PartialProvisioningIsNeverRepaired ==
    [][/\ (/\ last'.op = "createOrgAdminAndSendCredentials"
           /\ last'.reason \in {"admin-record-failed", "organization-update-failed"})
             => accounts'[last'.result.userId].exists
       /\ \A a \in DOMAIN accounts :
             accounts[a].exists =>
                 /\ accounts'[a] = accounts[a]
                 /\ orgAdmins'[a] = orgAdmins[a]
                 /\ \A o \in DOMAIN organizations :
                        a \in AdminUsersOf(organizations', o)
                            <=> a \in AdminUsersOf(organizations, o)
       /\ (/\ last'.op = "createOrgAdminAndSendCredentials"
           /\ accountsByEmail(last'.args.email) # {})
             => ~last'.success]_vars

\* a call stopped between createUser and the orgAdmins record, and the
\* super-admin has tried again with the same email
C25_Witness ==
    /\ last.op = "createOrgAdminAndSendCredentials"
    /\ last.reason = "already-exists"
    /\ \E a \in DOMAIN accounts :
          /\ accounts[a].exists
          /\ ~orgAdmins[a].exists
          /\ accounts[a].email = toLowerCase(last.args.email)
          /\ \A o \in DOMAIN organizations : a \notin AdminUsersOf(organizations, o)

(* C27: every id in an organization's adminUsers has an orgAdmins record   *)
(* under that id naming that organization, every orgAdmins record is keyed *)
(* by the id of an existing account, and a credentials email is sent only  *)
(* when account, record and adminUsers entry are all in place.             *)
C27_SideEffectsInOrder ==
    /\ \A o \in DOMAIN organizations : \A a \in AdminUsersOf(organizations, o) :
          /\ orgAdmins[a].exists
          /\ orgAdmins[a].organizationId = o
    /\ \A a \in DOMAIN orgAdmins : orgAdmins[a].exists => accounts[a].exists
    /\ (last.op = "createOrgAdminAndSendCredentials" /\ last.result.smtp # "unused") =>
          /\ accounts[last.result.userId].exists
          /\ orgAdmins[last.result.userId].exists
          /\ last.result.userId \in AdminUsersOf(organizations, last.args.organizationId)

\* a call stopped between the orgAdmins record and the adminUsers entry
C27_Witness ==
    /\ last.op = "createOrgAdminAndSendCredentials"
    /\ last.reason = "organization-update-failed"
    /\ orgAdmins[last.result.userId].exists
    /\ last.result.userId \notin AdminUsersOf(organizations, last.args.organizationId)

(* C28: no organization's adminUsers lists the same account id twice.      *)
C28_AdminUsersHasNoDuplicates ==
    \A o \in DOMAIN organizations :
        organizations[o].exists =>
            \A i, j \in 1..Len(organizations[o].adminUsers) :
                organizations[o].adminUsers[i] = organizations[o].adminUsers[j] => i = j

\* two administrators were provisioned for o1, which had one
C28_Witness ==
    /\ last.op = "createOrgAdminAndSendCredentials"
    /\ last.success
    /\ Len(organizations["o1"].adminUsers) = 3

(* C26: approveOrganization sends the approval notice only in a call that  *)
(* stored approved = true; a call that stores approved = false, as one     *)
(* with a truthy input that is not the boolean true does, sends none.      *)
C26_NoticeOnlyWhenStoredApproved ==
    (last.op = "approveOrganization" /\ last.result.mail.sent)
        => organizations[last.args.organizationId].approved

(* C29: a document written before a failing email send stays written.      *)
(* When the relay refuses the mail of sendEmailVerification the call fails *)
(* and the new emailVerifications document (new otp, verified = false) is  *)
(* in the store; when it refuses the mail of approveOrganization the       *)
(* organization's approved flag has the value just written.                *)
C29_WriteSurvivesFailedSend ==
    /\ (last.op = "sendEmailVerification" /\ last.result.smtp = "refused") =>
          /\ ~last.success
          /\ emailVerifications[last.auth]
                = verificationDocument(NoDoc, last.args.email, last.result.otp,
                                       last.args.organizationId)
          /\ ~emailVerifications[last.auth].verified
    /\ (last.op = "approveOrganization" /\ last.result.smtp = "refused") =>
          /\ organizations[last.args.organizationId].approved
                = strictlyTrue(last.args.approved)
          /\ organizations[last.args.organizationId].updatedAt = now

\* after an approval was stored, the relay refused a verification mail
\* whose code was not the smallest one
C29_Witness ==
    /\ last.op = "sendEmailVerification"
    /\ last.result.smtp = "refused"
    /\ last.result.otp # numberToString(OtpBase)
    /\ emailVerifications[last.auth].otp = last.result.otp
    /\ organizations["o1"].approved

(* C30: every anonymousMessages document created by submitAnonymousMessage *)
(* has read = false, a linkId that named an existing, active link when it  *)
(* was checked, and that link's userId as recipientId, a user whose        *)
(* profile existed; a submission that fails creates no message and changes *)
(* no link.                                                                *)
C30_MessagesAreWellAddressed ==
    [][last'.op = "submitAnonymousMessage" =>
          IF last'.success
          THEN LET m    == anonymousMessages'[Len(anonymousMessages')]
                   link == getDocument(userPublicLinks, last'.args.linkId)
               IN  /\ anonymousMessages' = Append(anonymousMessages, m)
                   /\ ~m.read
                   /\ m.linkId = last'.args.linkId
                   /\ link.exists
                   /\ link.isActive
                   /\ m.recipientId = link.userId
                   /\ getDocument(users, m.recipientId).exists
          ELSE /\ anonymousMessages' = anonymousMessages
               /\ userPublicLinks' = userPublicLinks]_vars

\* a message was stored, and a later submission to the active link of a
\* user without a profile was turned away
C30_Witness ==
    /\ last.op = "submitAnonymousMessage"
    /\ last.reason = "no-recipient"
    /\ Len(anonymousMessages) = 1
    /\ ~anonymousMessages[1].read
    /\ userPublicLinks[anonymousMessages[1].linkId].messageCount = 1

\* the invocations that have returned success for a link
SucceededOn(linkId) ==
    {c \in DOMAIN inflight :
        /\ inflight[c].pc = "done"
        /\ inflight[c].reason = "ok"
        /\ inflight[c].linkId = linkId}

(* C24: however the submitAnonymousMessage invocations for one link are    *)
(* interleaved, the link's messageCount, 0 at the start, is the number of  *)
(* invocations that have returned success: once N concurrent calls have    *)
(* all succeeded the count is N greater than before, and no increment is   *)
(* lost.                                                                   *)
C24_NoIncrementIsLost ==
    \A l \in DOMAIN userPublicLinks :
        userPublicLinks[l].messageCount = Cardinality(SucceededOn(l))

\* three invocations read the link before any of them had updated it, and
\* all three have returned
C24_Witness ==
    /\ SucceededOn("l1") = Clients
    /\ \A c \in Clients : inflight[c].linkData.messageCount = 0
    /\ userPublicLinks["l1"].messageCount = Cardinality(Clients)

\* the three conditions of the trigger, on an update event: completed in
\* the after snapshot, not completed in the before snapshot, no link id yet
CompletionEvent(e) ==
    /\ strictlyTrue(e.after.profileCompleted)
    /\ ~strictlyTrue(e.before.profileCompleted)
    /\ e.after.publicLinkId = ""

\* the update event was caused by the trigger's own write of publicLinkId
OwnWriteEvent(e) == e.after.publicLinkId # e.before.publicLinkId

C36_OwnWriteRefiresWithoutEffect ==
    [][last'.op = "generatePublicLink" =>
          LET e == last'.args.event
          IN  /\ OwnWriteEvent(e) =>
                    /\ userPublicLinks' = userPublicLinks
                    /\ users' = users
                    /\ Len(events') = Len(events) - 1
              /\ last'.result.linkId # "" =>
                    /\ Len(events') <= Len(events)
                    /\ users[e.userId].publicLinkId # last'.result.linkId
                          => /\ Len(events') = Len(events)
                             /\ OwnWriteEvent(events'[Len(events')])
                             /\ events'[Len(events')].after = users'[e.userId]]_vars

\* one completion, its link, the trigger's own update handled: nothing pending
C36_Witness ==
    /\ last.op = "generatePublicLink"
    /\ OwnWriteEvent(last.args.event)
    /\ events = <<>>
    /\ Cardinality(LinksOf("u1")) = 1
    /\ users["u1"].publicLinkId \in LinksOf("u1")

\* a profile's publicLinkId names a link document
NamesExistingLink(u) ==
    users[u].publicLinkId # "" =>
        getDocument(userPublicLinks, users[u].publicLinkId).exists

RecordOfCall(record, c) ==
    /\ record.exists
    /\ record.email = inflight[c].email
    /\ record.organizationId = inflight[c].organizationId
    /\ record.otp = inflight[c].otp
    /\ record.expiresAt = inflight[c].expiresAt

(* C32: when two sendEmailVerification calls of one user run at the same   *)
(* time, the stored record is at every moment the record of the call that  *)
(* wrote last: each write leaves email, organizationId, otp and expiresAt  *)
(* of the writing call, and these fields change in no other step.          *)
C32_LastWriterWinsWhole ==
    [][\A u \in DOMAIN emailVerifications :
          LET writers == {c \in DOMAIN inflight :
                             inflight[c].pc = "otp" /\ inflight'[c].pc = "stored"}
          IN  /\ \A c \in writers : RecordOfCall(emailVerifications'[u], c)
              /\ writers = {} =>
                    \/ emailVerifications'[u] = emailVerifications[u]
                    \/ /\ emailVerifications[u].exists
                       /\ emailVerifications'[u] = markVerified(emailVerifications[u])]_vars

\* both calls had computed their code before either wrote; the record is
\* that of c2, whose input and code differ from those of c1
C32_Witness ==
    /\ inflight["c1"].pc = "done"
    /\ inflight["c2"].pc = "stored"
    /\ inflight["c1"].email # inflight["c2"].email
    /\ inflight["c1"].otp # inflight["c2"].otp
    /\ inflight["c1"].expiresAt = inflight["c2"].expiresAt
    /\ RecordOfCall(emailVerifications["u1"], "c2")
    /\ ~RecordOfCall(emailVerifications["u1"], "c1")

(* C35: in every reachable state, also when verifyEmailOtp and             *)
(* sendEmailVerification of one user interleave, a record has verified =   *)
(* true only if a verifyEmailOtp call supplied the otp that this record    *)
(* holds, having read this record's email and otp.  The confirmation reads *)
(* and checks a snapshot and then updates whatever document is stored.     *)
C35_VerifiedOnlyByItsOwnCode ==
    \A u \in DOMAIN emailVerifications :
        (emailVerifications[u].exists /\ emailVerifications[u].verified) =>
            \E c \in DOMAIN inflight :
                /\ inflight[c].pc \in {"marked", "done"}
                /\ inflight[c].verification.exists
                /\ inflight[c].otp = emailVerifications[u].otp
                /\ inflight[c].verification.otp = emailVerifications[u].otp
                /\ inflight[c].verification.email = emailVerifications[u].email

\* the stored messages addressed through a link
MessagesOf(linkId) ==
    {i \in 1..Len(anonymousMessages) : anonymousMessages[i].linkId = linkId}

\* every submission that was started has returned success
AllReturnedSuccess ==
    \A c \in DOMAIN inflight :
        inflight[c].pc = "idle" \/ (inflight[c].pc = "done" /\ inflight[c].reason = "ok")

(* C39: starting with links whose messageCount is the number of stored     *)
(* messages with their linkId, in every reachable state, between the steps *)
(* of a submission and after a failed increment too, a link's messageCount *)
(* is at most the number of stored messages with its linkId, and equal to  *)
(* it whenever every submission started has returned success.              *)
C39_CountNeverExceedsMessages ==
    \A l \in DOMAIN userPublicLinks :
        /\ userPublicLinks[l].messageCount <= Cardinality(MessagesOf(l))
        /\ AllReturnedSuccess =>
              userPublicLinks[l].messageCount = Cardinality(MessagesOf(l))

\* one submission succeeded, one failed at the increment, one is between
\* its two writes
C39_Witness ==
    /\ \E c \in Clients : inflight[c].reason = "ok" /\ inflight[c].linkId = "l1"
    /\ \E c \in Clients : inflight[c].reason = "update-failed" /\ inflight[c].linkId = "l1"
    /\ \E c \in Clients : inflight[c].pc = "messageRef" /\ inflight[c].linkId = "l1"
    /\ userPublicLinks["l1"].messageCount = 1
    /\ Cardinality(MessagesOf("l1")) = 3

(* C34: when two createOrgAdminAndSendCredentials calls for the same       *)
(* organization and different emails run at the same time and both return  *)
(* success, the organization's adminUsers holds both new account ids.      *)
(* Each call writes the list it read at its start plus its own id, so the  *)
(* call that writes second drops the id of the first.                      *)
C34_BothAdministratorsListed ==
    \A p, q \in DOMAIN inflight :
        (/\ p # q
         /\ inflight[p].pc = "done" /\ inflight[p].userId # ""
         /\ inflight[q].pc = "done" /\ inflight[q].userId # ""
         /\ inflight[p].organizationId = inflight[q].organizationId
         /\ inflight[p].email # inflight[q].email)
            => {inflight[p].userId, inflight[q].userId}
                   \subseteq AdminUsersOf(organizations, inflight[p].organizationId)

\* the value that the lookup order gives: the variable of the process named
\* key; else, for a key of exactly two parts, the value at namespace.field of
\* the deployment configuration; else the default
resolve(key, defaultValue, config) ==
    LET parts == split(toLowerCase(KeyChars[key]), "_")
        deployed ==
            IF /\ Len(parts) = 2
               /\ ~config.throws
               /\ parts[1] \in DOMAIN config.namespaces
               /\ parts[2] \in DOMAIN config.namespaces[parts[1]]
            THEN config.namespaces[parts[1]][parts[2]]
            ELSE <<>>
    IN  IF env[key] # <<>> THEN env[key]
        ELSE IF deployed # <<>> THEN deployed
        ELSE defaultValue

(* C33: getConfig returns the variable of the process named key when it is *)
(* set; otherwise, for a key of exactly two parts, the value of the        *)
(* deployment configuration at namespace.field when there is one;          *)
(* otherwise the default; and what it returns is always a string, also for *)
(* SUPER_ADMIN_EMAIL. Two of the three copies of getConfig never consult   *)
(* the deployment configuration, and one of them returns undefined.        *)
C33_ResolvesInLookupOrder ==
    last.op \in {"getConfig", "getConfigBackup", "getConfigPart000"}
        => last.result = JsString(resolve(last.args.key, last.args.defaultValue,
                                          last.args.config))

(* C38: while SUPER_ADMIN_EMAIL is not set, no authenticated caller gets   *)
(* past the super-admin check of approveOrganization, a caller whose token *)
(* has no email included. In the copy whose getConfig returns undefined    *)
(* such a caller is taken for the super-admin.                             *)
C38_NobodyIsSuperAdminWhenUnset ==
    (/\ last.op = "approveOrganization"
     /\ last.auth.authenticated
     /\ env["SUPER_ADMIN_EMAIL"] = <<>>)
        => last.reason = "permission-denied"

====
